---- MODULE Spec2Model ----
(***************************************************************************)
(* A model of the finance module of CLOVER (src/clover/impact/finance.py)  *)
(* and of its generation module (src/clover/generation/__utils__.py).      *)
(* The two modules share no state: Spec is the finance module, and the     *)
(* generation module, with its threads and its files, has the              *)
(* specifications SpecFetch, SpecConcurrent and SpecProfiles.              *)
(*                                                                         *)
(* Every operation of the finance module is a function of its arguments.   *)
(* Its state is the finance-input mapping of the run together with the     *)
(* last call made on the module: its name, its arguments, the way it ended *)
(* (a returned value or a raised error) and the values of the local        *)
(* variables the properties refer to.  The state of the generation module  *)
(* is the thread of every class and the directory of the generated files.  *)
(*                                                                         *)
(* Numbers.  Python floats are modelled as exact rationals <<n, d>> in     *)
(* lowest terms with d > 0; NaN is <<0, 0>>.  The daily discount           *)
(* denominator (1 + rate) ** (1/365) is irrational, so a discounted        *)
(* fraction is kept symbolically as a power of it, and a discounted total  *)
(* as a polynomial in it: a function from the exponent to the rational     *)
(* coefficient, without zero coefficients.                                 *)
(***************************************************************************)
EXTENDS Integers, Sequences, FiniteSets, TLC

VARIABLES finance_inputs, call, ret, locals, threads, files

vars == <<finance_inputs, call, ret, locals, threads, files>>

-----------------------------------------------------------------------------
(* Bounds of the model. *)

\* Simulation years run over 0 .. MaxYears.
MaxYears == 2

\* The largest component size (and tank count) that is tried.
MaxSize == 3

\* The largest installation year that is tried.
MaxInstallYear == 2

\* The longest lifetime of the system, in years, next to the 20 years of the
\* inverter of lifetime 10.
MaxLocationYears == 5

\* The length of the longest series of households that is enumerated.
MaxHouseholdsLen == 3

\* The years after the first one that a thread fetches the data of.
MaxFetchSpan == 1

\* The number of threads of a class that are run one after the other.
MaxRuns == 2

\* The number of rows of the longest of the short profiles.
MaxProfileRows == 8

-----------------------------------------------------------------------------
(* Exact rational arithmetic. *)

Abs(n) == IF n < 0 THEN -n ELSE n

Max2(a, b) == IF a >= b THEN a ELSE b

Min2(a, b) == IF a <= b THEN a ELSE b

RECURSIVE GCD(_, _)
GCD(a, b) == IF b = 0 THEN a ELSE GCD(b, a % b)

\* n/d in lowest terms, d > 0.
Norm(n, d) ==
    LET g == GCD(Abs(n), d)
    IN  <<n \div g, d \div g>>

Int2R(n) == <<n, 1>>

Zero == <<0, 1>>

One == <<1, 1>>

NaN == <<0, 0>>

IsNaN(a) == a[2] = 0

\* a + b; the sum of two whole numbers needs no reduction.
RAdd(a, b) ==
    IF a[2] = 1 /\ b[2] = 1 THEN <<a[1] + b[1], 1>>
    ELSE Norm(a[1] * b[2] + b[1] * a[2], a[2] * b[2])

RNeg(a) == <<-a[1], a[2]>>

RSub(a, b) == RAdd(a, RNeg(b))

RMul(a, b) ==
    IF a[2] = 1 /\ b[2] = 1 THEN <<a[1] * b[1], 1>>
    ELSE Norm(a[1] * b[1], a[2] * b[2])

\* a / b for b # 0.
RDiv(a, b) ==
    IF b[1] > 0 THEN Norm(a[1] * b[2], a[2] * b[1])
    ELSE Norm(-(a[1] * b[2]), a[2] * (-b[1]))

RLess(a, b) == a[1] * b[2] < b[1] * a[2]

RLeq(a, b) == a[1] * b[2] <= b[1] * a[2]

\* a ** k for an integer k >= 0 (0 ** 0 is 1, as in Python).
RECURSIVE RPow(_, _)
RPow(a, k) == IF k = 0 THEN One ELSE RMul(a, RPow(a, k - 1))

\* numpy.ceil: the least integer that is not less than a.
RCeil(a) == Int2R(-((-a[1]) \div a[2]))

\* The percentage p as a fraction: 0.01 * p.
Percent(p) == Norm(p, 100)

\* numpy's round(2): to the nearest multiple of 0.01, ties to the even one.
RRound2(a) ==
    LET ip  == a[1] \div a[2]
        rem == a[1] % a[2]
        q   == (100 * rem) \div a[2]
        r   == (100 * rem) % a[2]
        up  == \/ 2 * r > a[2]
               \/ 2 * r = a[2] /\ q % 2 = 1
    IN  Norm(100 * ip + q + (IF up THEN 1 ELSE 0), 100)

-----------------------------------------------------------------------------
(* Symbolic arithmetic over the daily discount denominator.                *)
(*                                                                         *)
(* Root365(x) + c is written [root365 |-> x, plus |-> c].  A frame models  *)
(* a one-column pandas.DataFrame of multiples of powers of Root365(x): it  *)
(* is [root365 |-> x, values |-> s], where s[k] = [exp |-> e, coef |-> c]  *)
(* stands for c * Root365(x) ** e and row k of the model is the row of     *)
(* index label k - 1.  A total is [root365 |-> x, coef |-> f], the         *)
(* polynomial with coefficient f[e] at exponent e.                         *)

\* The polynomial f without its zero coefficients.
PTrim(f) == [e \in {x \in DOMAIN f : f[x] # Zero} |-> f[e]]

PCoef(f, e) == IF e \in DOMAIN f THEN f[e] ELSE Zero

PAdd(f, g) == PTrim([e \in DOMAIN f \cup DOMAIN g |-> RAdd(PCoef(f, e), PCoef(g, e))])

PScale(a, f) == PTrim([e \in DOMAIN f |-> RMul(a, f[e])])

\* The number 0 as a total: it has no denominator.
PlainZero == [root365 |-> Zero, coef |-> << >>]

\* The sum of two totals over the same denominator.
TotalAdd(t, u) ==
    [root365 |-> IF t = PlainZero THEN u.root365 ELSE t.root365,
     coef    |-> PAdd(t.coef, u.coef)]

\* The polynomial of the terms s[1] .. s[n], term by term.
RECURSIVE PSumTo(_, _)
PSumTo(s, n) ==
    IF n = 0 THEN << >>
    ELSE PAdd(PSumTo(s, n - 1), [e \in {s[n].exp} |-> s[n].coef])

\* pandas' DataFrame.sum of a column (skipna): the NaN rows are skipped and
\* the other rows are added up.  Rows whose exponents fall by one from row to
\* row are collected in one step; the result is the same polynomial.
NpSum(s) ==
    LET live == SelectSeq(s, LAMBDA t : ~IsNaN(t.coef))
        n    == Len(live)
        top  == live[1].exp
    IN  IF n = 0 THEN << >>
        ELSE IF \A k \in 1..n : live[k].exp = top - (k - 1)
        THEN PTrim([e \in (top - n + 1)..top |-> live[top - e + 1].coef])
        ELSE PSumTo(live, n)

\* pandas' DataFrame * DataFrame of a frame and a one-column frame of
\* numbers: the rows are aligned on their index labels, and a label that
\* only one of the two frames has gives a NaN row.
FrameMul(frame, series) ==
    LET n == Len(frame.values)
        m == Len(series)
    IN  [k \in 1..Max2(n, m) |->
            IF k <= n /\ k <= m
            THEN [exp  |-> frame.values[k].exp,
                  coef |-> RMul(frame.values[k].coef, series[k])]
            ELSE [exp |-> 0, coef |-> NaN]]

-----------------------------------------------------------------------------
(* The ends of a call. *)

Returned(v) == [kind |-> "returned", value |-> v]

KeyError(key) == [kind |-> "KeyError", key |-> key]

InputFileError(file) == [kind |-> "InputFileError", file |-> file]

Raised(error) == [kind |-> error]

-----------------------------------------------------------------------------
(* Keywords of the finance inputs. *)

BOS == "bos"

CLEAN_WATER_TANK == "clean_water_tank"

DIESEL == "diesel_generator"

DIESEL_FUEL == "diesel_fuel"

HOT_WATER_TANK == "hot_water_tank"

HOUSEHOLDS == "households"

INVERTER == "inverter"

MISC == "misc"

PV == "pv"

PV_T == "pv_t"

STORAGE == "storage"

DISCOUNT_RATE == "discount_rate"

GENERAL_OM == "general_o&m"

\* The number of days of a simulation year.
DaysPerYear == 365

\* The number of days of a year that _component_om replicates.
OmDaysPerYear == 265

-----------------------------------------------------------------------------
(* Helper functions. *)

\* _component_cost with a reduction that does not compound.
_component_cost_linear(component_cost, component_cost_decrease, component_size, installation_year) ==
    LET system_wide_cost == RMul(component_cost, component_size)
        annual_reduction == RMul(Percent(1), component_cost_decrease)
    IN  RMul(system_wide_cost,
             RSub(One, RMul(Int2R(installation_year), annual_reduction)))

\* size * cost * (1 - 0.01 * cost_decrease) ** installation_year
_component_cost(component_cost, component_cost_decrease, component_size, installation_year) ==
    LET system_wide_cost == RMul(component_cost, component_size)
        annual_reduction == RMul(Percent(1), component_cost_decrease)
    IN  RMul(system_wide_cost, RPow(RSub(One, annual_reduction), installation_year))

_component_installation_cost(component_size, installation_cost, installation_cost_decrease, installation_year) ==
    LET total_component_installation_cost == RMul(component_size, installation_cost)
        annual_reduction == RMul(Percent(1), installation_cost_decrease)
    IN  RMul(total_component_installation_cost,
             RPow(RSub(One, annual_reduction), installation_year))

\* ((1.0 + discount_rate) ** (1.0 / 365.0)) - 1.0
_daily_discount_rate(discount_rate) ==
    [root365 |-> RAdd(One, discount_rate), plus |-> RNeg(One)]

\* _discounted_fraction with denominator ** time in place of
\* denominator ** -time.
_discounted_fraction_compounding(discount_rate, start_year, end_year) ==
    LET start_day == start_year * DaysPerYear
        end_day   == end_year * DaysPerYear
    IN  Returned([root365 |-> RAdd(One, discount_rate),
                  values  |-> [k \in 1..Max2(end_day - start_day, 0) |->
                                 [exp |-> start_day + k - 1, coef |-> One]]])

\* _discounted_fraction that rejects a negative rate.
_discounted_fraction_rejecting(discount_rate, start_year, end_year) ==
    LET start_day == start_year * DaysPerYear
        end_day   == end_year * DaysPerYear
    IN  IF RLess(discount_rate, Zero) THEN Raised("ValueError")
        ELSE Returned([root365 |-> RAdd(One, discount_rate),
                       values  |-> [k \in 1..Max2(end_day - start_day, 0) |->
                                      [exp |-> -(start_day + k - 1), coef |-> One]]])

\* _discounted_fraction with the days counted from start_year.
_discounted_fraction_from_start(discount_rate, start_year, end_year) ==
    LET n == Max2((end_year - start_year) * DaysPerYear, 0)
    IN  IF RAdd(One, discount_rate) = Zero /\ n > 1
        THEN Raised("ZeroDivisionError")
        ELSE Returned([root365 |-> RAdd(One, discount_rate),
                       values  |-> [k \in 1..n |-> [exp |-> -(k - 1), coef |-> One]]])

\* The frame of denominator ** -time for time in range(start_day, end_day).
\* Python raises ZeroDivisionError for 0.0 ** -time with time > 0, which is
\* the case of a rate of -1 and a window that holds a day after day 0.  For
\* a rate below -1 Python computes the (complex) principal root.
_discounted_fraction(discount_rate, start_year, end_year) ==
    LET start_day   == start_year * DaysPerYear
        end_day     == end_year * DaysPerYear
        r_d         == _daily_discount_rate(discount_rate)
        denominator == [root365 |-> r_d.root365, plus |-> RAdd(One, r_d.plus)]
    IN  IF denominator.root365 = Zero /\ end_day > start_day /\ end_day > 1
        THEN Raised("ZeroDivisionError")
        ELSE Returned([root365 |-> denominator.root365,
                       values  |-> [k \in 1..Max2(end_day - start_day, 0) |->
                                      [exp |-> -(start_day + k - 1), coef |-> One]]])

\* discounted_energy_total that goes on without discounting when the
\* finance inputs hold no discount rate.
discounted_energy_total_best_effort(fin, total_daily, start_year, end_year) ==
    LET discount_rate       == IF DISCOUNT_RATE \in DOMAIN fin THEN fin[DISCOUNT_RATE]
                               ELSE Zero
        discounted_fraction == _discounted_fraction(discount_rate, start_year, end_year)
    IN  Returned([root365 |-> discounted_fraction.value.root365,
                  coef    |-> NpSum(FrameMul(discounted_fraction.value, total_daily))])

\* discounted_energy_total with one unit added to every day of the series.
discounted_energy_total_offset(fin, total_daily, start_year, end_year) ==
    IF DISCOUNT_RATE \notin DOMAIN fin THEN KeyError(DISCOUNT_RATE)
    ELSE
        LET discounted_fraction == _discounted_fraction(fin[DISCOUNT_RATE], start_year, end_year)
            raised == [k \in 1..Len(total_daily) |-> RAdd(total_daily[k], One)]
        IN  Returned([root365 |-> discounted_fraction.value.root365,
                      coef    |-> NpSum(FrameMul(discounted_fraction.value, raised))])

\* discounted_energy_total with a check of the length of the series.
discounted_energy_total_checked(fin, total_daily, start_year, end_year) ==
    IF DISCOUNT_RATE \notin DOMAIN fin THEN KeyError(DISCOUNT_RATE)
    ELSE IF Len(total_daily) # (end_year - start_year) * DaysPerYear
    THEN Raised("DimensionMismatchError")
    ELSE
        LET discounted_fraction == _discounted_fraction(fin[DISCOUNT_RATE], start_year, end_year)
        IN  Returned([root365 |-> discounted_fraction.value.root365,
                      coef    |-> NpSum(FrameMul(discounted_fraction.value, total_daily))])

\* discounted_energy_total that leaves out the last day of the window.
discounted_energy_total_short(fin, total_daily, start_year, end_year) ==
    IF DISCOUNT_RATE \notin DOMAIN fin THEN KeyError(DISCOUNT_RATE)
    ELSE
        LET discounted_fraction == _discounted_fraction(fin[DISCOUNT_RATE], start_year, end_year)
            n == Len(discounted_fraction.value.values)
        IN  Returned([root365 |-> discounted_fraction.value.root365,
                      coef    |-> NpSum(FrameMul(
                                    [discounted_fraction.value EXCEPT
                                        !.values = SubSeq(@, 1, Max2(n - 1, 0))],
                                    total_daily))])

\* The sum of discounted_fraction * total_daily.
discounted_energy_total(fin, total_daily, start_year, end_year) ==
    IF DISCOUNT_RATE \notin DOMAIN fin THEN KeyError(DISCOUNT_RATE)
    ELSE
        LET discount_rate       == fin[DISCOUNT_RATE]
            discounted_fraction == _discounted_fraction(discount_rate, start_year, end_year)
            discounted_energy   == FrameMul(discounted_fraction.value, total_daily)
        IN  IF discounted_fraction.kind # "returned" THEN discounted_fraction
            ELSE Returned([root365 |-> discounted_fraction.value.root365,
                           coef    |-> NpSum(discounted_energy)])

\* _component_om with a daily cost for every day of the window.
_component_om_every_day(component_om_cost, component_size, fin, start_year, end_year) ==
    LET om_cost_daily    == RDiv(RMul(component_size, component_om_cost), Int2R(365))
        total_daily_cost ==
            [k \in 1..Max2((end_year - start_year) * DaysPerYear, 0) |-> om_cost_daily]
    IN  discounted_energy_total(fin, total_daily_cost, start_year, end_year)

\* The O&M cost of a component: the discounted total of
\* [om_cost_daily] * (end_year - start_year) * 265.
_component_om(component_om_cost, component_size, fin, start_year, end_year) ==
    LET om_cost_daily    == RDiv(RMul(component_size, component_om_cost), Int2R(365))
        total_daily_cost ==
            [k \in 1..Max2((end_year - start_year) * OmDaysPerYear, 0) |-> om_cost_daily]
    IN  discounted_energy_total(fin, total_daily_cost, start_year, end_year)

\* (pv_array_size + diesel_size) * misc_costs
_misc_costs(diesel_size, misc_costs, pv_array_size) ==
    RMul(RAdd(pv_array_size, diesel_size), misc_costs)

-----------------------------------------------------------------------------
(* Externally facing functions. *)

\* The local variables of get_total_equipment_cost at its return statement,
\* for finance inputs that hold every entry the call reads.
equipment_costs(clean_water_tanks, diesel_size, fin, hot_water_tanks, pv_array_size, pvt_array_size, storage_size, installation_year) ==
    [bos_cost |->
        _component_cost(fin[BOS].cost, fin[BOS].cost_decrease,
                        pv_array_size, installation_year),
     clean_water_tank_cost |->
        IF RLess(Zero, clean_water_tanks)
        THEN _component_cost(fin[CLEAN_WATER_TANK].cost,
                             fin[CLEAN_WATER_TANK].cost_decrease,
                             clean_water_tanks, installation_year)
        ELSE Zero,
     clean_water_tank_installation_cost |->
        IF RLess(Zero, clean_water_tanks)
        THEN _component_installation_cost(clean_water_tanks,
                                          fin[CLEAN_WATER_TANK].cost,
                                          fin[CLEAN_WATER_TANK].cost_decrease,
                                          installation_year)
        ELSE Zero,
     diesel_cost |->
        _component_cost(fin[DIESEL].cost, fin[DIESEL].cost_decrease,
                        diesel_size, installation_year),
     diesel_installation_cost |->
        _component_installation_cost(pv_array_size, fin[DIESEL].cost,
                                     fin[DIESEL].cost_decrease, installation_year),
     hot_water_tank_cost |->
        IF RLess(Zero, hot_water_tanks)
        THEN _component_cost(fin[HOT_WATER_TANK].cost,
                             fin[HOT_WATER_TANK].cost_decrease,
                             hot_water_tanks, installation_year)
        ELSE Zero,
     hot_water_tank_installation_cost |->
        IF RLess(Zero, hot_water_tanks)
        THEN _component_installation_cost(hot_water_tanks,
                                          fin[HOT_WATER_TANK].cost,
                                          fin[HOT_WATER_TANK].cost_decrease,
                                          installation_year)
        ELSE Zero,
     pv_cost |->
        _component_cost(fin[PV].cost, fin[PV].cost_decrease,
                        pv_array_size, installation_year),
     pv_installation_cost |->
        _component_installation_cost(pv_array_size, fin[PV].cost,
                                     fin[PV].cost_decrease, installation_year),
     pvt_cost |->
        IF RLess(Zero, pvt_array_size)
        THEN _component_cost(fin[PV_T].cost, fin[PV_T].cost_decrease,
                             pv_array_size, installation_year)
        ELSE Zero,
     pvt_installation_cost |->
        IF RLess(Zero, pvt_array_size)
        THEN _component_installation_cost(pvt_array_size, fin[PV_T].cost,
                                          fin[PV_T].cost_decrease, installation_year)
        ELSE Zero,
     storage_cost |->
        _component_cost(fin[STORAGE].cost, fin[STORAGE].cost_decrease,
                        storage_size, installation_year),
     misc_costs |->
        _misc_costs(diesel_size, fin[MISC].cost, pv_array_size)]

\* The value of the return statement of get_total_equipment_cost for the
\* local variables c.
equipment_total(c) ==
    LET total_installation_cost ==
            RAdd(RAdd(RAdd(RAdd(c.clean_water_tank_installation_cost,
                                c.diesel_installation_cost),
                           c.hot_water_tank_installation_cost),
                      c.pv_installation_cost),
                 c.pvt_installation_cost)
    IN  RAdd(RAdd(RAdd(RAdd(RAdd(RAdd(RAdd(RAdd(
            c.bos_cost,
            c.clean_water_tank_cost),
            c.diesel_cost),
            c.hot_water_tank_cost),
            c.misc_costs),
            c.pv_cost),
            c.pvt_cost),
            c.storage_cost),
            total_installation_cost)

\* get_total_equipment_cost without the checks of the optional entries: the
\* entry of a component of positive size is read whether it is there or not.
get_total_equipment_cost_unchecked(clean_water_tanks, diesel_size, fin, hot_water_tanks, pv_array_size, pvt_array_size, storage_size, installation_year) ==
    IF BOS \notin DOMAIN fin THEN KeyError(BOS)
    ELSE IF CLEAN_WATER_TANK \notin DOMAIN fin /\ RLess(Zero, clean_water_tanks)
    THEN KeyError(CLEAN_WATER_TANK)
    ELSE IF DIESEL \notin DOMAIN fin THEN KeyError(DIESEL)
    ELSE IF HOT_WATER_TANK \notin DOMAIN fin /\ RLess(Zero, hot_water_tanks)
    THEN KeyError(HOT_WATER_TANK)
    ELSE IF PV \notin DOMAIN fin THEN KeyError(PV)
    ELSE IF PV_T \notin DOMAIN fin /\ RLess(Zero, pvt_array_size)
    THEN KeyError(PV_T)
    ELSE IF STORAGE \notin DOMAIN fin THEN KeyError(STORAGE)
    ELSE IF MISC \notin DOMAIN fin THEN KeyError(MISC)
    ELSE Returned(equipment_total(
            equipment_costs(clean_water_tanks, diesel_size, fin, hot_water_tanks,
                            pv_array_size, pvt_array_size, storage_size,
                            installation_year)))

\* get_total_equipment_cost that reads the entries of the tanks and of PV-T
\* whatever their sizes are.
get_total_equipment_cost_unguarded(clean_water_tanks, diesel_size, fin, hot_water_tanks, pv_array_size, pvt_array_size, storage_size, installation_year) ==
    IF BOS \notin DOMAIN fin THEN KeyError(BOS)
    ELSE IF CLEAN_WATER_TANK \notin DOMAIN fin
    THEN IF RLess(Zero, clean_water_tanks) THEN InputFileError("finance inputs")
         ELSE KeyError(CLEAN_WATER_TANK)
    ELSE IF DIESEL \notin DOMAIN fin THEN KeyError(DIESEL)
    ELSE IF HOT_WATER_TANK \notin DOMAIN fin
    THEN IF RLess(Zero, hot_water_tanks) THEN InputFileError("tank inputs")
         ELSE KeyError(HOT_WATER_TANK)
    ELSE IF PV \notin DOMAIN fin THEN KeyError(PV)
    ELSE IF PV_T \notin DOMAIN fin
    THEN IF RLess(Zero, pvt_array_size) THEN InputFileError("finance inputs")
         ELSE KeyError(PV_T)
    ELSE IF STORAGE \notin DOMAIN fin THEN KeyError(STORAGE)
    ELSE IF MISC \notin DOMAIN fin THEN KeyError(MISC)
    ELSE Returned(equipment_total(
            equipment_costs(clean_water_tanks, diesel_size, fin, hot_water_tanks,
                            pv_array_size, pvt_array_size, storage_size,
                            installation_year)))

\* The combined undiscounted cost of the system equipment.  The entries of
\* the finance inputs are read in the order of the statements of the
\* function, and the first one that is missing ends the call.
get_total_equipment_cost(clean_water_tanks, diesel_size, fin, hot_water_tanks, pv_array_size, pvt_array_size, storage_size, installation_year) ==
    IF BOS \notin DOMAIN fin THEN KeyError(BOS)
    ELSE IF CLEAN_WATER_TANK \notin DOMAIN fin /\ RLess(Zero, clean_water_tanks)
    THEN InputFileError("finance inputs")
    ELSE IF DIESEL \notin DOMAIN fin THEN KeyError(DIESEL)
    ELSE IF HOT_WATER_TANK \notin DOMAIN fin /\ RLess(Zero, hot_water_tanks)
    THEN InputFileError("tank inputs")
    ELSE IF PV \notin DOMAIN fin THEN KeyError(PV)
    ELSE IF PV_T \notin DOMAIN fin /\ RLess(Zero, pvt_array_size)
    THEN InputFileError("finance inputs")
    ELSE IF STORAGE \notin DOMAIN fin THEN KeyError(STORAGE)
    ELSE IF MISC \notin DOMAIN fin THEN KeyError(MISC)
    ELSE Returned(equipment_total(
            equipment_costs(clean_water_tanks, diesel_size, fin, hot_water_tanks,
                            pv_array_size, pvt_array_size, storage_size,
                            installation_year)))

\* A sum that keeps its first term only.
OmAdd_first(r1, r2) ==
    IF r1.kind # "returned" THEN r1
    ELSE IF r2.kind # "returned" THEN r2
    ELSE r1

\* The first of the calls r1, r2 that did not return, or the sum of their
\* totals.
OmAdd(r1, r2) ==
    IF r1.kind # "returned" THEN r1
    ELSE IF r2.kind # "returned" THEN r2
    ELSE Returned(TotalAdd(r1.value, r2.value))

\* The total O&M cost over the simulation period.  The statements are taken
\* in their order: the O&M of the clean-water tanks, of the diesel
\* generator, the general O&M, the hot-water tanks, PV, PV-T and storage.
total_om(clean_water_tanks, diesel_size, fin, hot_water_tanks, pv_array_size, pvt_array_size, storage_size, start_year, end_year) ==
    LET none == Returned(PlainZero)
        clean_water_tank_om ==
            IF CLEAN_WATER_TANK \notin DOMAIN fin /\ RLess(Zero, clean_water_tanks)
            THEN InputFileError("tank inputs")
            ELSE IF RLess(Zero, clean_water_tanks)
            THEN _component_om(fin[CLEAN_WATER_TANK].om, clean_water_tanks, fin,
                               start_year, end_year)
            ELSE none
        diesel_om ==
            IF DIESEL \notin DOMAIN fin THEN KeyError(DIESEL)
            ELSE _component_om(fin[DIESEL].om, diesel_size, fin, start_year, end_year)
        general_om ==
            IF GENERAL_OM \notin DOMAIN fin THEN KeyError(GENERAL_OM)
            ELSE _component_om(fin[GENERAL_OM], One, fin, start_year, end_year)
        hot_water_tank_om ==
            IF HOT_WATER_TANK \notin DOMAIN fin /\ RLess(Zero, hot_water_tanks)
            THEN InputFileError("tank inputs")
            ELSE IF RLess(Zero, hot_water_tanks)
            THEN _component_om(fin[HOT_WATER_TANK].om, hot_water_tanks, fin,
                               start_year, end_year)
            ELSE none
        pv_om ==
            IF PV \notin DOMAIN fin THEN KeyError(PV)
            ELSE _component_om(fin[PV].om, pv_array_size, fin, start_year, end_year)
        pvt_om ==
            IF PV_T \notin DOMAIN fin /\ RLess(Zero, pvt_array_size)
            THEN InputFileError("finance inputs")
            ELSE IF RLess(Zero, pvt_array_size)
            THEN _component_om(fin[PV_T].om, pvt_array_size, fin, start_year, end_year)
            ELSE none
        storage_om ==
            IF STORAGE \notin DOMAIN fin THEN KeyError(STORAGE)
            ELSE _component_om(fin[STORAGE].om, storage_size, fin, start_year, end_year)
    IN  OmAdd(OmAdd(OmAdd(OmAdd(OmAdd(OmAdd(
            clean_water_tank_om,
            diesel_om),
            general_om),
            hot_water_tank_om),
            pv_om),
            pvt_om),
            storage_om)

-----------------------------------------------------------------------------
(* The discounted cost of the equipment.                                   *)
(*                                                                         *)
(* discounted_equipment_cost passes its eight arguments to                 *)
(* get_total_equipment_cost by position, and that function has nine        *)
(* parameters.  An argument of a call is a Python object: a number is      *)
(* [type |-> "float", value |-> v] and the logger is [type |-> "Logger"].  *)

Logger == [type |-> "Logger"]

Float(v) == [type |-> "float", value |-> v]

\* get_total_equipment_cost called with objects: hot_water_tanks > 0 raises
\* TypeError for an object that is no number, and logger.error raises
\* AttributeError for an object that is no logger, at the statement that
\* evaluates it.
get_total_equipment_cost_of_objects(clean_water_tanks, diesel_size, fin, hot_water_tanks, logger, pv_array_size, pvt_array_size, storage_size, installation_year) ==
    IF BOS \notin DOMAIN fin THEN KeyError(BOS)
    ELSE IF CLEAN_WATER_TANK \notin DOMAIN fin /\ RLess(Zero, clean_water_tanks.value)
    THEN (IF logger.type = "Logger" THEN InputFileError("finance inputs")
          ELSE Raised("AttributeError"))
    ELSE IF DIESEL \notin DOMAIN fin THEN KeyError(DIESEL)
    ELSE IF hot_water_tanks.type # "float" THEN Raised("TypeError")
    ELSE
        LET r == get_total_equipment_cost(
                     clean_water_tanks.value, diesel_size.value, fin,
                     hot_water_tanks.value, pv_array_size.value, pvt_array_size.value,
                     storage_size.value, installation_year)
        IN  IF r.kind = "InputFileError" /\ logger.type # "Logger"
            THEN Raised("AttributeError")
            ELSE r

\* The discounted cost of the equipment: the arguments go to
\* get_total_equipment_cost in their order, so logger is bound to
\* hot_water_tanks, pv_array_size to logger, pvt_array_size to
\* pv_array_size, storage_size to pvt_array_size, installation_year to
\* storage_size, and installation_year is left at its default, 0.
discounted_equipment_cost(clean_water_tanks, diesel_size, fin, logger, pv_array_size, pvt_array_size, storage_size, installation_year) ==
    LET undiscounted_cost ==
            get_total_equipment_cost_of_objects(
                clean_water_tanks, diesel_size, fin, logger, pv_array_size,
                pvt_array_size, storage_size, Float(Int2R(installation_year)), 0)
    IN  IF undiscounted_cost.kind # "returned" THEN undiscounted_cost
        ELSE IF DISCOUNT_RATE \notin DOMAIN fin THEN KeyError(DISCOUNT_RATE)
        ELSE Returned(RMul(undiscounted_cost.value,
                           RPow(RSub(One, fin[DISCOUNT_RATE]), installation_year)))

-----------------------------------------------------------------------------
(* The expenditure on fuel and on the use of a component.                  *)
(*                                                                         *)
(* The daily price of fuel is cost * (1 - r_d) ** day with                 *)
(* 1 - r_d = 2 - Root365(1 + r_y): a price is kept as                      *)
(* [fuel_exp |-> day, coef |-> cost], a multiple of a power of the price   *)
(* base of [fuel365 |-> 1 + r_y].  The discounted total of such a series   *)
(* is [root365, coef, fuel365, fuel_exp]: the term of exponent e of the    *)
(* discount denominator has the coefficient coef[e] and the factor         *)
(* (2 - Root365(fuel365)) ** fuel_exp[e].                                  *)

HoursPerDay == 24

\* pandas.DataFrame(values): the one-column frame of the values, in their
\* order.
DataFrame(values) == SubSeq(values, 1, Len(values))

\* The sum of s[from] .. s[to].
RECURSIVE RSumRange(_, _, _)
RSumRange(s, from, to) ==
    IF to < from THEN Zero ELSE RAdd(RSumRange(s, from, to - 1), s[to])

\* The daily sums of an hourly profile of whole days.
hourly_profile_to_daily_sum(hourly_profile) ==
    DataFrame([d \in 1..(Len(hourly_profile) \div HoursPerDay) |->
        RSumRange(hourly_profile, HoursPerDay * (d - 1) + 1, HoursPerDay * d)])

\* numpy's product of two one-column arrays: element by element for equal
\* lengths, a column of one row is stretched to the other's length, and any
\* other pair of lengths raises ValueError.
numpy_multiply(usage, price) ==
    LET n == Len(usage)
        m == Len(price)
    IN  IF n = m
        THEN Returned([k \in 1..n |->
                [fuel_exp |-> price[k].fuel_exp, coef |-> RMul(usage[k], price[k].coef)]])
        ELSE IF n = 1
        THEN Returned([k \in 1..m |->
                [fuel_exp |-> price[k].fuel_exp, coef |-> RMul(usage[1], price[k].coef)]])
        ELSE IF m = 1
        THEN Returned([k \in 1..n |->
                [fuel_exp |-> price[1].fuel_exp, coef |-> RMul(usage[k], price[1].coef)]])
        ELSE Raised("ValueError")

\* The daily price of fuel over range(start_day, end_day) for the annual
\* rate r_y.
diesel_price_daily(cost, start_day, end_day) ==
    DataFrame([k \in 1..Max2(end_day - start_day, 0) |->
        [fuel_exp |-> start_day + k - 1, coef |-> cost]])

\* The discounted total of a series of multiples of powers of the price
\* base: discounted_energy_total of the multiples, each term with the power
\* of the price base of its row.
discounted_price_total(fin, fuel365, total_daily_cost, start_year, end_year) ==
    LET total == discounted_energy_total(
                     fin, [k \in 1..Len(total_daily_cost) |-> total_daily_cost[k].coef],
                     start_year, end_year)
        fraction == _discounted_fraction(fin[DISCOUNT_RATE], start_year, end_year).value
        n        == Len(fraction.values)
        top      == fraction.values[1].exp
        \* The row of the fraction with the exponent e: the exponents of the
        \* rows fall by one from row to row.
        RowOf(e) == IF \A k \in 1..n : fraction.values[k].exp = top - (k - 1)
                    THEN top - e + 1
                    ELSE CHOOSE k \in 1..n : fraction.values[k].exp = e
    IN  IF total.kind # "returned" THEN total
        ELSE Returned([root365  |-> total.value.root365,
                       coef     |-> total.value.coef,
                       fuel365  |-> fuel365,
                       fuel_exp |-> [e \in DOMAIN total.value.coef |->
                                        total_daily_cost[RowOf(e)].fuel_exp]])

\* diesel_fuel_expenditure with the price falling at the discount rate.
diesel_fuel_expenditure_at_discount_rate(diesel_fuel_usage_hourly, fin, start_year, end_year) ==
    LET diesel_fuel_usage_daily == hourly_profile_to_daily_sum(diesel_fuel_usage_hourly)
    IN  IF DIESEL_FUEL \notin DOMAIN fin THEN KeyError(DIESEL_FUEL)
        ELSE IF DISCOUNT_RATE \notin DOMAIN fin THEN KeyError(DISCOUNT_RATE)
        ELSE
            LET price == diesel_price_daily(fin[DIESEL_FUEL].cost,
                                            start_year * 365, end_year * 365)
                total_daily_cost == numpy_multiply(diesel_fuel_usage_daily, price)
            IN  IF total_daily_cost.kind # "returned" THEN total_daily_cost
                ELSE discounted_price_total(fin, RAdd(One, fin[DISCOUNT_RATE]),
                                            total_daily_cost.value, start_year, end_year)

\* The discounted cost of the diesel fuel used by the system.
diesel_fuel_expenditure(diesel_fuel_usage_hourly, fin, start_year, end_year) ==
    LET diesel_fuel_usage_daily == hourly_profile_to_daily_sum(diesel_fuel_usage_hourly)
        start_day == start_year * 365
        end_day   == end_year * 365
    IN  IF DIESEL_FUEL \notin DOMAIN fin THEN KeyError(DIESEL_FUEL)
        ELSE
            LET r_y == RMul(Percent(1), fin[DIESEL_FUEL].cost_decrease)
                r_d == [root365 |-> RAdd(One, r_y), plus |-> RNeg(One)]
                price == diesel_price_daily(fin[DIESEL_FUEL].cost, start_day, end_day)
                total_daily_cost == numpy_multiply(diesel_fuel_usage_daily, price)
            IN  IF total_daily_cost.kind # "returned" THEN total_daily_cost
                ELSE discounted_price_total(fin, r_d.root365, total_daily_cost.value,
                                            start_year, end_year)

\* The discounted cost of the usage of a component.
expenditure(component, fin, hourly_usage, start_year, end_year) ==
    IF component \notin DOMAIN fin THEN KeyError(component)
    ELSE
        LET hourly_cost == DataFrame([h \in 1..Len(hourly_usage) |->
                               RMul(hourly_usage[h], fin[component].cost)])
            total_daily_cost == hourly_profile_to_daily_sum(hourly_cost)
        IN  discounted_energy_total(fin, total_daily_cost, start_year, end_year)

-----------------------------------------------------------------------------
(* The expenditure on inverters and on connections. *)

\* numpy.arange(0, max_years, replacement_period): the installation years.
replacement_intervals(replacement_period, max_years) ==
    [i \in 1..(IF max_years > 0
               THEN (max_years + replacement_period - 1) \div replacement_period
               ELSE 0) |-> (i - 1) * replacement_period]

\* The greatest of s[1] .. s[n] for n > 0, as a running maximum.
RECURSIVE SeriesMaxTo(_, _)
SeriesMaxTo(s, n) ==
    IF n = 1 THEN s[1] ELSE Max2(SeriesMaxTo(s, n - 1), s[n])

RECURSIVE SeriesMinTo(_, _)
SeriesMinTo(s, n) ==
    IF n = 1 THEN s[1] ELSE Min2(SeriesMinTo(s, n - 1), s[n])

\* yearly_load_statistics["Maximum"].iloc[start:end].max(): the slice is cut
\* at the end of the table, and the maximum of an empty slice is NaN.
max_power_interval(maximum, start, end) ==
    LET rows == SubSeq(maximum, start + 1, Min2(end, Len(maximum)))
    IN  IF Len(rows) = 0 THEN NaN ELSE Int2R(SeriesMaxTo(rows, Len(rows)))

\* inverter_size_interval for a size that is rounded down.
inverter_size_interval_floor(max_power, inverter_step) ==
    IF IsNaN(max_power) THEN NaN
    ELSE LET x == RDiv(RMul(Norm(1, 1000), max_power), inverter_step)
         IN  RMul(Int2R(x[1] \div x[2]), inverter_step)

\* np.ceil(0.001 * max_power_interval / inverter_step) * inverter_step
inverter_size_interval(max_power, inverter_step) ==
    IF IsNaN(max_power) THEN NaN
    ELSE RMul(RCeil(RDiv(RMul(Norm(1, 1000), max_power), inverter_step)),
              inverter_step)

\* The row of one installation year with the cost decrease compounded over
\* the years since the previous replacement.
inverter_row_since_last(fin, maximum, installation_year) ==
    LET period == fin[INVERTER].lifetime
        size   == inverter_size_interval(
                      max_power_interval(maximum, installation_year,
                                         installation_year + period),
                      fin[INVERTER].size_increment)
        rate   == RPow(RSub(One, fin[DISCOUNT_RATE]), installation_year)
        cost   == RMul(fin[INVERTER].cost,
                       RPow(RSub(One, RMul(Percent(1), fin[INVERTER].cost_decrease)),
                            Min2(installation_year, period)))
    IN  [installation_year |-> installation_year, inverter_size |-> size,
         discount_rate |-> rate, inverter_cost |-> cost,
         discounted_expenditure |->
            IF IsNaN(size) THEN NaN ELSE RMul(RMul(rate, size), cost)]

\* The row of inverter_info of one installation year: the size of the
\* inverter, the discount fraction, the cost per kW and the discounted
\* expenditure.
inverter_row(fin, maximum, installation_year) ==
    LET period == fin[INVERTER].lifetime
        size   == inverter_size_interval(
                      max_power_interval(maximum, installation_year,
                                         installation_year + period),
                      fin[INVERTER].size_increment)
        rate   == RPow(RSub(One, fin[DISCOUNT_RATE]), installation_year)
        cost   == RMul(fin[INVERTER].cost,
                       RPow(RSub(One, RMul(Percent(1), fin[INVERTER].cost_decrease)),
                            installation_year))
    IN  [installation_year |-> installation_year, inverter_size |-> size,
         discount_rate |-> rate, inverter_cost |-> cost,
         discounted_expenditure |->
            IF IsNaN(size) THEN NaN ELSE RMul(RMul(rate, size), cost)]

\* The table inverter_info: one row for every installation year.
inverter_info(fin, max_years, maximum) ==
    LET years == replacement_intervals(fin[INVERTER].lifetime, max_years)
    IN  [i \in 1..Len(years) |-> inverter_row(fin, maximum, years[i])]

\* The sum of the discounted expenditure of the rows 1 .. n whose
\* installation year is in range(start_year, end_year); NaN is skipped.
RECURSIVE ExpenditureTo(_, _, _, _)
ExpenditureTo(info, n, start_year, end_year) ==
    IF n = 0 THEN Zero
    ELSE LET rest == ExpenditureTo(info, n - 1, start_year, end_year)
             row  == info[n]
         IN  IF /\ row.installation_year >= start_year
                /\ row.installation_year < end_year
                /\ ~IsNaN(row.discounted_expenditure)
             THEN RAdd(rest, row.discounted_expenditure)
             ELSE rest

\* _inverter_expenditure that also counts a replacement in end_year.
_inverter_expenditure_closed(fin, max_years, maximum, start_year, end_year) ==
    IF INVERTER \notin DOMAIN fin THEN KeyError(INVERTER)
    ELSE
        LET years == replacement_intervals(fin[INVERTER].lifetime, max_years)
        IN  IF \A i \in 1..Len(years) : years[i] < start_year \/ years[i] > end_year
            THEN Returned(Zero)
            ELSE IF DISCOUNT_RATE \notin DOMAIN fin THEN KeyError(DISCOUNT_RATE)
            ELSE LET info == inverter_info(fin, max_years, maximum)
                 IN  Returned(RRound2(
                         ExpenditureTo(info, Len(info), start_year, end_year + 1)))

\* _inverter_expenditure that leaves out a replacement in start_year.
_inverter_expenditure_after_start(fin, max_years, maximum, start_year, end_year) ==
    IF INVERTER \notin DOMAIN fin THEN KeyError(INVERTER)
    ELSE
        LET years == replacement_intervals(fin[INVERTER].lifetime, max_years)
        IN  IF \A i \in 1..Len(years) : years[i] <= start_year \/ years[i] >= end_year
            THEN Returned(Zero)
            ELSE IF DISCOUNT_RATE \notin DOMAIN fin THEN KeyError(DISCOUNT_RATE)
            ELSE LET info == inverter_info(fin, max_years, maximum)
                 IN  Returned(RRound2(
                         ExpenditureTo(info, Len(info), start_year + 1, end_year)))

\* The discounted cost of the inverters installed in the years of
\* range(start_year, end_year), rounded to two decimal places.
_inverter_expenditure(fin, max_years, maximum, start_year, end_year) ==
    IF INVERTER \notin DOMAIN fin THEN KeyError(INVERTER)
    ELSE
        LET years == replacement_intervals(fin[INVERTER].lifetime, max_years)
        IN  IF \A i \in 1..Len(years) : years[i] < start_year \/ years[i] >= end_year
            THEN Returned(Zero)
            ELSE IF DISCOUNT_RATE \notin DOMAIN fin THEN KeyError(DISCOUNT_RATE)
            ELSE LET info == inverter_info(fin, max_years, maximum)
                 IN  Returned(RRound2(
                         ExpenditureTo(info, Len(info), start_year, end_year)))

\* connections_expenditure that takes the new connections as the last number
\* of households less the first.
connections_expenditure_last_first(fin, households, installation_year) ==
    LET new_connections == households[Len(households)] - households[1]
    IN  IF Len(households) = 0 THEN Raised("ValueError")
        ELSE IF HOUSEHOLDS \notin DOMAIN fin THEN KeyError(HOUSEHOLDS)
        ELSE IF DISCOUNT_RATE \notin DOMAIN fin THEN KeyError(DISCOUNT_RATE)
        ELSE Returned(RMul(RMul(fin[HOUSEHOLDS].connection_cost, Int2R(new_connections)),
                           RPow(RSub(One, fin[DISCOUNT_RATE]), installation_year)))

\* The cost of connecting households to the system.  numpy raises ValueError
\* for the maximum of an empty series.
connections_expenditure(fin, households, installation_year) ==
    LET new_connections ==
            SeriesMaxTo(households, Len(households))
                - SeriesMinTo(households, Len(households))
    IN  IF Len(households) = 0 THEN Raised("ValueError")
        ELSE IF HOUSEHOLDS \notin DOMAIN fin THEN KeyError(HOUSEHOLDS)
        ELSE IF DISCOUNT_RATE \notin DOMAIN fin THEN KeyError(DISCOUNT_RATE)
        ELSE
            LET undiscounted_cost ==
                    RMul(fin[HOUSEHOLDS].connection_cost, Int2R(new_connections))
                discount_fraction ==
                    RPow(RSub(One, fin[DISCOUNT_RATE]), installation_year)
            IN  Returned(RMul(undiscounted_cost, discount_fraction))

-----------------------------------------------------------------------------
(* The finance inputs of a run: a mapping from the keywords that the       *)
(* finance-inputs file holds to their entries.                             *)

\* The entries that every operation reads whatever the sizes are.
RequiredKeys ==
    {BOS, DIESEL, DIESEL_FUEL, HOUSEHOLDS, INVERTER, MISC, PV, STORAGE,
     DISCOUNT_RATE, GENERAL_OM}

\* The entries that are only read when their component has a positive size.
OptionalKeys == {CLEAN_WATER_TANK, HOT_WATER_TANK, PV_T}

AllKeys == RequiredKeys \cup OptionalKeys

Component(cost, cost_decrease, om) ==
    [cost |-> cost, cost_decrease |-> cost_decrease, om |-> om]

\* Three finance-inputs files: "flat" has no discounting and no cost
\* decrease, "tenth" a discount rate of 0.1, "half" a discount rate of 0.5
\* and an inverter of lifetime 10.
Profiles == {"flat", "tenth", "half"}

ProfileRate(p) ==
    CASE p = "flat" -> Zero [] p = "tenth" -> Norm(1, 10) [] p = "half" -> Norm(1, 2)

\* The cost decrease of a component, in percent per year.
ProfileDecrease(p, pct) == IF p = "flat" THEN Zero ELSE Int2R(pct)

Entry(p, k) ==
    CASE k = BOS              -> Component(Int2R(2), ProfileDecrease(p, 10), Zero)
      [] k = CLEAN_WATER_TANK -> Component(Int2R(3), ProfileDecrease(p, 20), Int2R(1))
      [] k = DIESEL           -> Component(Int2R(5), ProfileDecrease(p, 50), Int2R(2))
      [] k = DIESEL_FUEL      -> Component(Int2R(1), ProfileDecrease(p, -10), Zero)
      [] k = HOT_WATER_TANK   -> Component(Int2R(7), ProfileDecrease(p, 0), Int2R(3))
      [] k = HOUSEHOLDS       -> [connection_cost |-> Int2R(50)]
      [] k = INVERTER         ->
            [cost           |-> IF p = "half" THEN Int2R(1024) ELSE Int2R(4),
             cost_decrease  |-> IF p = "tenth" THEN Int2R(50) ELSE Zero,
             lifetime       |-> CASE p = "flat" -> 1 [] p = "tenth" -> 2 [] p = "half" -> 10,
             size_increment |-> CASE p = "flat" -> One [] p = "tenth" -> Int2R(3)
                                  [] p = "half" -> Norm(1, 2)]
      [] k = MISC             -> Component(Int2R(11), Zero, Zero)
      [] k = PV               -> Component(Int2R(13), ProfileDecrease(p, 10), Int2R(5))
      [] k = PV_T             -> Component(Int2R(17), ProfileDecrease(p, 50), Int2R(7))
      [] k = STORAGE          -> Component(Int2R(19), ProfileDecrease(p, 20), Int2R(11))
      [] k = DISCOUNT_RATE    -> ProfileRate(p)
      [] k = GENERAL_OM       -> Int2R(73)

FinanceInputs(p, absent) == [k \in AllKeys \ absent |-> Entry(p, k)]

\* The entries a finance-inputs file may lack: any of the optional ones, or
\* one required entry, alone or together with the optional ones.
AbsentSets ==
    (SUBSET OptionalKeys)
        \cup {{r} : r \in RequiredKeys}
        \cup {{r} \cup OptionalKeys : r \in RequiredKeys}

\* The files of the run: the "tenth" file with each of these sets of entries
\* missing, and the other two complete or without the optional entries.
FinanceInputsSet ==
    {FinanceInputs("tenth", a) : a \in AbsentSets}
        \cup {FinanceInputs(p, a) : p \in Profiles, a \in {{}, OptionalKeys}}

-----------------------------------------------------------------------------
(* The arguments that are tried. *)

\* The simulation windows: 0 <= start_year < end_year <= MaxYears.
Windows == {w \in (0..MaxYears) \X (0..MaxYears) : w[1] < w[2]}

\* The windows of one year, for the calls that take an hourly profile and for
\* total_om.
YearWindows == {w \in Windows : w[2] = w[1] + 1}

WindowDays(w) == (w[2] - w[1]) * DaysPerYear

\* The annual rates that _discounted_fraction is called with.
Rates == {Zero, Norm(1, 20), Norm(1, 10), Norm(1, 2), Norm(-1, 10), Int2R(-1), Int2R(-2)}

\* Daily series of a given length: constant, or changing from day to day.
SeriesKinds == {"hundred", "ramp", "gaps"}

DailySeries(kind, len) ==
    [k \in 1..len |->
        CASE kind = "hundred" -> Int2R(100)
          [] kind = "ramp"    -> Int2R(1 + (k % 7))
          [] kind = "gaps"    -> Int2R((k % 3) * (k % 2))]

\* The lengths of the daily series tried for a window: the window's own
\* length, one day less and one day more, the 265 days a year of
\* _component_om, one day and no day.
SeriesLengths(w) ==
    {WindowDays(w), WindowDays(w) - 1, WindowDays(w) + 1,
     (w[2] - w[1]) * OmDaysPerYear, 1, 0}

-----------------------------------------------------------------------------
(* The generation module (src/clover/generation/__utils__.py): the         *)
(* profiles that are fetched from renewables.ninja.                        *)
(*                                                                         *)
(* A profile has a row for every hour of a year.  A table of rows is kept  *)
(* as a sequence of segments: a segment [year, fetch, from, to] stands for *)
(* the rows of the hours from .. to of the data of a year, as the API      *)
(* served them in its reply number fetch.  Segments that follow one        *)
(* another in the data are joined, so that equal tables are equal values.  *)

\* The sleep time between two requests, in seconds.
RENEWABLES_NINJA_SLEEP_TIME == 12

\* The first hour of the 29th of February.
FEB_29 == (31 + 28) * 24

TOKEN == "token"

Segment(year, fetch, from, to) == [year |-> year, fetch |-> fetch, from |-> from, to |-> to]

SegmentLen(s) == s.to - s.from + 1

\* The number of rows of a table.
RECURSIVE NumRows(_)
NumRows(rows) ==
    IF rows = <<>> THEN 0 ELSE SegmentLen(Head(rows)) + NumRows(Tail(rows))

\* pandas.concat([a, b], ignore_index=True) on the rows of two tables.
ConcatRows(a, b) ==
    IF a = <<>> THEN b
    ELSE IF b = <<>> THEN a
    ELSE LET last  == a[Len(a)]
             first == b[1]
         IN  IF /\ last.year = first.year
                /\ last.fetch = first.fetch
                /\ last.to + 1 = first.from
             THEN SubSeq(a, 1, Len(a) - 1)
                      \o <<Segment(last.year, last.fetch, last.from, first.to)>>
                      \o Tail(b)
             ELSE a \o b

\* The rows [0 : k] of a table, for 0 <= k <= NumRows(rows).
RECURSIVE HeadRows(_, _)
HeadRows(rows, k) ==
    IF k = 0 \/ rows = <<>> THEN <<>>
    ELSE LET s == Head(rows)
         IN  IF SegmentLen(s) <= k
             THEN <<s>> \o HeadRows(Tail(rows), k - SegmentLen(s))
             ELSE <<Segment(s.year, s.fetch, s.from, s.from + k - 1)>>

\* The rows [k : ] of a table, for 0 <= k <= NumRows(rows).
RECURSIVE TailRows(_, _)
TailRows(rows, k) ==
    IF k = 0 \/ rows = <<>> THEN rows
    ELSE LET s == Head(rows)
         IN  IF SegmentLen(s) <= k
             THEN TailRows(Tail(rows), k - SegmentLen(s))
             ELSE <<Segment(s.year, s.fetch, s.from + k, s.to)>> \o Tail(rows)

\* The place a Python slice starts or ends at for the index k in a table of
\* n rows: a negative index counts from the end.
SliceIndex(k, n) == IF k < 0 THEN Max2(n + k, 0) ELSE Min2(k, n)

\* numpy.split(data, [k]): the rows [ : k] and the rows [k : ].
np_split(rows, k) ==
    LET at == SliceIndex(k, NumRows(rows))
    IN  <<HeadRows(rows, at), TailRows(rows, at)>>

\* A pandas.DataFrame: the names of its columns and its rows.
Frame(columns, rows) == [columns |-> columns, rows |-> rows]

\* The names of the columns of the data that renewables.ninja serves.
DIFFUSE_IRRADIANCE == "irradiance_diffuse"

DIRECT_IRRADIANCE == "irradiance_direct"

ELECTRICITY == "electricity"

TEMPERATURE == "temperature"

TOTAL_IRRADIANCE == "irradiance_total"

\* The replies of the API to a request: the hourly data of the year with
\* the irradiance ("profile") or without it ("electricity"), a text that is
\* no JSON ("html"), a JSON object without data, as for a token that is not
\* valid ("detail"), a JSON array ("array"), and no reply ("timeout").
ResponseKinds == {"profile", "electricity", "html", "detail", "array", "timeout"}

\* The hours of the data of a year: 366 days in a leap year.
HoursOfYear(year) ==
    (IF year % 4 = 0 /\ (year % 100 # 0 \/ year % 400 = 0)
     THEN DaysPerYear + 1 ELSE DaysPerYear) * HoursPerDay

\* The data of a reply that holds data.
ResponseData(response, year) ==
    Frame(IF response.kind = "profile"
          THEN <<ELECTRICITY, DIRECT_IRRADIANCE, DIFFUSE_IRRADIANCE, TEMPERATURE>>
          ELSE <<ELECTRICITY>>,
          <<Segment(year, response.fetch, 0, HoursOfYear(year) - 1)>>)

\* Python's round of a number to an integer: to the nearest one, a tie to
\* the even one.
round(x) ==
    LET floor == x[1] \div x[2]
        rem   == x[1] % x[2]
    IN  IF 2 * rem < x[2] THEN floor
        ELSE IF 2 * rem > x[2] THEN floor + 1
        ELSE IF floor % 2 = 0 THEN floor ELSE floor + 1

\* The data of renewables.ninja for a year, in UTC: the parsed reply without
\* the rows of the 29th of February.  requests raises for a request without
\* reply, json.loads raises JSONDecodeError for a text that is no JSON, which
\* is turned into RenewablesNinjaError, and parsed_response["data"] raises
\* KeyError for an object without data and TypeError for an array.
_get_profile_from_rn(response, year) ==
    IF response.kind = "timeout" THEN Raised("ConnectionError")
    ELSE IF response.kind = "html" THEN Raised("RenewablesNinjaError")
    ELSE IF response.kind = "detail" THEN KeyError("data")
    ELSE IF response.kind = "array" THEN Raised("TypeError")
    ELSE
        LET data_frame == ResponseData(response, year)
        IN  IF year % 4 = 0
            THEN IF NumRows(data_frame.rows) < FEB_29 + 24 THEN KeyError("labels")
                 ELSE Returned(Frame(data_frame.columns,
                                     ConcatRows(HeadRows(data_frame.rows, FEB_29),
                                                TailRows(data_frame.rows, FEB_29 + 24))))
            ELSE Returned(data_frame)

\* _get_profile_local_time that moves the rows the other way.
_get_profile_local_time_westward(data_utc, time_difference) ==
    LET d == round(time_difference)
    IN  IF d = 0 THEN data_utc
        ELSE LET splits == np_split(data_utc.rows, IF d > 0 THEN d ELSE NumRows(data_utc.rows) + d)
             IN  Frame(data_utc.columns, ConcatRows(splits[2], splits[1]))

\* The profile in local time: the time difference is rounded to an hour, and
\* the rows are split at that many hours from the end (east of Greenwich) or
\* from the start (west of it) and put together the other way round.
_get_profile_local_time(data_utc, time_difference) ==
    LET d == round(time_difference)
    IN  IF d > 0
        THEN LET splits == np_split(data_utc.rows, NumRows(data_utc.rows) - d)
             IN  Frame(data_utc.columns, ConcatRows(splits[2], splits[1]))
        ELSE IF d < 0
        THEN LET splits == np_split(data_utc.rows, Abs(d))
             IN  Frame(data_utc.columns, ConcatRows(splits[2], splits[1]))
        ELSE data_utc

\* The data of a year in local time, or the error of the request.
_get_profile_output(time_difference, response, gen_year) ==
    LET data_utc == _get_profile_from_rn(response, gen_year)
    IN  IF data_utc.kind # "returned" THEN data_utc
        ELSE Returned(_get_profile_local_time(data_utc.value, time_difference))

\* The text of a CSV file: the line of the names of the columns and the
\* lines of the rows.  to_csv(index=False) leaves out the index, and
\* read_csv numbers the rows anew.
to_csv(data_frame) == [header |-> data_frame.columns, lines |-> data_frame.rows]

read_csv(f) == Frame(f.header, f.lines)

\* The names of the files of a profile: the file of a year and the file of
\* the total of a number of years.
YearFile(profile_name, year) == [profile |-> profile_name, of |-> "year", n |-> year]

TotalFile(profile_name, num_years) == [profile |-> profile_name, of |-> "years", n |-> num_years]

\* os.path.isfile
isfile(dir, filepath) == filepath \in DOMAIN dir

\* The directory after a file is written.
WriteFile(dir, filepath, text) ==
    [f \in DOMAIN dir \cup {filepath} |-> IF f = filepath THEN text ELSE dir[f]]

-----------------------------------------------------------------------------
(* The threads that fetch the profiles.                                    *)
(*                                                                         *)
(* There is a thread of a class at a time.  A thread that sleeps has the   *)
(* seconds it still sleeps for; the time passes for all threads together.  *)
(* A thread keeps the trace of what its run did: its sleeps, the years it  *)
(* skipped, its requests to the API and the files it wrote.                *)

\* The classes of the threads: the base class and two children of it.
Classes == {"BaseRenewablesNinjaThread", "SolarDataThread", "WindDataThread"}

\* Whether the class has the attribute profile_name: __init_subclass__ sets
\* it on a child, and the base class only has its annotation.
HasProfileName(cls) == cls # "BaseRenewablesNinjaThread"

profile_name(cls) == IF cls = "SolarDataThread" THEN "solar" ELSE "wind"

\* The least of a set of numbers that is not empty.
Least(S) == CHOOSE x \in S : \A y \in S : x <= y

\* The years of the generation inputs: start_year is FirstYear, and end_year
\* is one of FirstYear .. FirstYear + MaxFetchSpan.
FirstYear == 2015

EndYears == FirstYear..(FirstYear + MaxFetchSpan)

\* The sleep multipliers of the threads, and the longest sleep between two
\* requests.
SleepMultipliers == {1, 2}

LongestSleep ==
    RENEWABLES_NINJA_SLEEP_TIME
        * (CHOOSE m \in SleepMultipliers : \A n \in SleepMultipliers : n <= m)

\* The time differences of the locations, in hours.
LocationTimeDifferences == {Zero, Norm(11, 2), Int2R(-3)}

NoError == [kind |-> "none"]

Event(event, n) == [event |-> event, n |-> n]

\* No thread of the class was made yet.
NoThread ==
    [pc |-> "none", regenerate |-> FALSE, sleep_multiplier |-> 1,
     time_difference |-> Zero, has_token |-> TRUE, end_year |-> FirstYear,
     year |-> FirstYear, sleep_left |-> 0, trace |-> <<>>, error |-> NoError,
     missing |-> {}, runs |-> 0, since_request |-> -1, gap |-> -1, own_gap |-> -1]

\* The directory of the generated files when nothing was generated.
NoFiles == [f \in {} |-> 0]

\* The years of a set whose file of the profile is not in the directory.
MissingYears(dir, name, years) == {y \in years : ~isfile(dir, YearFile(name, y))}

\* run that skips no year.
skip_year_never(dir, thread, filepath) == FALSE

\* The year is skipped: its file exists and the profiles are not regenerated.
skip_year(dir, thread, filepath) == isfile(dir, filepath) /\ ~thread.regenerate

\* run that sleeps after end_year as well.
sleep_after_every_year(thread, year) ==
    <<Event("sleep", RENEWABLES_NINJA_SLEEP_TIME * thread.sleep_multiplier)>>

\* run that does not sleep between two requests.
sleep_after_no_year(thread, year) == <<>>

\* The sleep after the file of a year is saved: none after end_year.
sleep_after_year(thread, year) ==
    IF year # thread.end_year
    THEN <<Event("sleep", RENEWABLES_NINJA_SLEEP_TIME * thread.sleep_multiplier)>>
    ELSE <<>>

\* The thread goes on to the next year of the loop, and run returns after
\* end_year.
NextYear(thread) ==
    [thread EXCEPT !.year = @ + 1,
                   !.pc = IF thread.year = thread.end_year THEN "finished" ELSE "sleeping"]

\* run that logs the error of a year and goes on with the next year.
continue_after_error(thread, error) ==
    NextYear([thread EXCEPT !.error = error])

\* The error of a year is logged and raised out of run, which ends the
\* thread.
raise_out_of_run(thread, error) ==
    [thread EXCEPT !.pc = "raised", !.error = error]

\* The thread at the moment of a request to the API, given the seconds
\* since the last requests of the other threads: the least time between a
\* request of the thread and a request of another thread before it, and the
\* least time between two requests of the thread.
Requesting(thread, others) ==
    LET requested == \E i \in 1..Len(thread.trace) : thread.trace[i].event = "request"
        near      == others \cup (IF thread.gap >= 0 THEN {thread.gap} ELSE {})
        own       == {thread.since_request} \cup
                         (IF thread.own_gap >= 0 THEN {thread.own_gap} ELSE {})
    IN  [thread EXCEPT
            !.trace = Append(@, Event("request", thread.year)),
            !.since_request = 0,
            !.gap = IF near = {} THEN -1 ELSE Least(near),
            !.own_gap = IF requested THEN Least(own) ELSE thread.own_gap]

\* The data of a year that run saves: the data of a solar profile is given
\* the column of the total irradiance, and KeyError is raised for data
\* without the direct or the diffuse irradiance.
data_to_save(cls, data) ==
    LET names == {data.columns[i] : i \in 1..Len(data.columns)}
    IN  IF profile_name(cls) # "solar" THEN Returned(data)
        ELSE IF DIRECT_IRRADIANCE \notin names THEN KeyError(DIRECT_IRRADIANCE)
        ELSE IF DIFFUSE_IRRADIANCE \notin names THEN KeyError(DIFFUSE_IRRADIANCE)
        ELSE Returned(Frame(IF TOTAL_IRRADIANCE \in names THEN data.columns
                            ELSE Append(data.columns, TOTAL_IRRADIANCE),
                            data.rows))

-----------------------------------------------------------------------------
(* The calls. *)

NoLocals == [none |-> TRUE]

\* No call is in progress: the module keeps nothing between two calls.
Idle == call.op = "none"

Init ==
    /\ finance_inputs \in FinanceInputsSet
    /\ call = [op |-> "none"]
    /\ ret = [kind |-> "none"]
    /\ locals = NoLocals
    /\ threads = [cls \in Classes |-> NoThread]
    /\ files = NoFiles

Call_discounted_fraction ==
    /\ Idle
    /\ \E rate \in Rates, w \in Windows :
        /\ Idle
        /\ call' = [op |-> "_discounted_fraction", discount_rate |-> rate,
                    start_year |-> w[1], end_year |-> w[2]]
        /\ ret' = _discounted_fraction(rate, w[1], w[2])
        /\ locals' = NoLocals
        /\ UNCHANGED <<finance_inputs, threads, files>>

Call_discounted_energy_total ==
    /\ Idle
    /\ \E w \in Windows, kind \in SeriesKinds :
        \E len \in SeriesLengths(w) :
            /\ Idle
            /\ call' = [op |-> "discounted_energy_total",
                        total_daily |-> DailySeries(kind, len),
                        start_year |-> w[1], end_year |-> w[2]]
            /\ ret' = discounted_energy_total(finance_inputs,
                                              DailySeries(kind, len), w[1], w[2])
            /\ locals' = NoLocals
            /\ UNCHANGED <<finance_inputs, threads, files>>

\* The sizes of the components, and the numbers of tanks.
Sizes == {Zero, One, Int2R(MaxSize)}

TankCounts == {Zero, Int2R(MaxSize)}

Call_get_total_equipment_cost ==
    /\ Idle
    /\ \E clean_water_tanks \in TankCounts, hot_water_tanks \in TankCounts,
       diesel_size \in Sizes, pv_array_size \in Sizes, pvt_array_size \in Sizes,
       storage_size \in TankCounts, installation_year \in 0..MaxInstallYear :
        LET r == get_total_equipment_cost(
                     clean_water_tanks, diesel_size, finance_inputs, hot_water_tanks,
                     pv_array_size, pvt_array_size, storage_size, installation_year)
        IN  /\ Idle
            /\ call' = [op |-> "get_total_equipment_cost",
                        clean_water_tanks |-> clean_water_tanks,
                        diesel_size |-> diesel_size,
                        hot_water_tanks |-> hot_water_tanks,
                        pv_array_size |-> pv_array_size,
                        pvt_array_size |-> pvt_array_size,
                        storage_size |-> storage_size,
                        installation_year |-> installation_year]
            /\ ret' = r
            /\ locals' = IF r.kind = "returned"
                         THEN equipment_costs(
                                  clean_water_tanks, diesel_size, finance_inputs,
                                  hot_water_tanks, pv_array_size, pvt_array_size,
                                  storage_size, installation_year)
                         ELSE NoLocals
            /\ UNCHANGED <<finance_inputs, threads, files>>

Call_total_om ==
    /\ Idle
    /\ \E clean_water_tanks \in TankCounts, hot_water_tanks \in TankCounts,
       diesel_size \in {Zero, One}, pvt_array_size \in TankCounts, w \in YearWindows :
        LET pv_array_size == Int2R(MaxSize)
            storage_size  == One
        IN  /\ Idle
            /\ call' = [op |-> "total_om",
                        clean_water_tanks |-> clean_water_tanks,
                        diesel_size |-> diesel_size,
                        hot_water_tanks |-> hot_water_tanks,
                        pv_array_size |-> pv_array_size,
                        pvt_array_size |-> pvt_array_size,
                        storage_size |-> storage_size,
                        start_year |-> w[1], end_year |-> w[2]]
            /\ ret' = total_om(clean_water_tanks, diesel_size, finance_inputs,
                               hot_water_tanks, pv_array_size, pvt_array_size,
                               storage_size, w[1], w[2])
            /\ locals' = NoLocals
            /\ UNCHANGED <<finance_inputs, threads, files>>

Call_discounted_equipment_cost ==
    /\ Idle
    /\ \E clean_water_tanks \in TankCounts, diesel_size \in Sizes,
          pv_array_size \in Sizes, pvt_array_size \in TankCounts,
          storage_size \in TankCounts, installation_year \in 0..MaxInstallYear :
        /\ call' = [op |-> "discounted_equipment_cost",
                    clean_water_tanks |-> clean_water_tanks,
                    diesel_size |-> diesel_size,
                    pv_array_size |-> pv_array_size,
                    pvt_array_size |-> pvt_array_size,
                    storage_size |-> storage_size,
                    installation_year |-> installation_year]
        /\ ret' = discounted_equipment_cost(
                      Float(clean_water_tanks), Float(diesel_size), finance_inputs,
                      Logger, Float(pv_array_size), Float(pvt_array_size),
                      Float(storage_size), installation_year)
        /\ locals' = NoLocals
        /\ UNCHANGED <<finance_inputs, threads, files>>

\* The costs of a unit of a component, and the yearly decreases of a cost in
\* percent.
UnitCosts == {Zero, Int2R(2), Norm(5, 2), Int2R(500)}

CostDecreases == {Zero, Int2R(10), Norm(5, 2), Int2R(100), Int2R(150), Int2R(-10)}

Call_component_cost ==
    /\ Idle
    /\ \E component_cost \in UnitCosts, component_cost_decrease \in CostDecreases,
       component_size \in Sizes \cup {Norm(1, 2)}, installation_year \in 0..MaxInstallYear :
        /\ Idle
        /\ call' = [op |-> "_component_cost", component_cost |-> component_cost,
                    component_cost_decrease |-> component_cost_decrease,
                    component_size |-> component_size,
                    installation_year |-> installation_year]
        /\ ret' = Returned(_component_cost(component_cost, component_cost_decrease,
                                           component_size, installation_year))
        /\ locals' = NoLocals
        /\ UNCHANGED <<finance_inputs, threads, files>>

\* The O&M costs of a unit of a component, per year.
OmCosts == {Zero, Int2R(2), Int2R(73)}

Call_component_om ==
    /\ Idle
    /\ \E component_om_cost \in OmCosts, component_size \in Sizes, w \in Windows :
        /\ Idle
        /\ call' = [op |-> "_component_om", component_om_cost |-> component_om_cost,
                    component_size |-> component_size,
                    start_year |-> w[1], end_year |-> w[2]]
        /\ ret' = _component_om(component_om_cost, component_size, finance_inputs,
                                w[1], w[2])
        /\ locals' = [total_daily_cost |->
                        [k \in 1..Max2((w[2] - w[1]) * OmDaysPerYear, 0) |->
                            RDiv(RMul(component_size, component_om_cost), Int2R(365))]]
        /\ UNCHANGED <<finance_inputs, threads, files>>

\* The lifetimes of the system, in years, for the finance inputs of the run:
\* 1 .. MaxLocationYears, and 20 years for an inverter that lasts 10 years.
LocationYears ==
    (1..MaxLocationYears)
        \cup (IF INVERTER \in DOMAIN finance_inputs
                  /\ finance_inputs[INVERTER].lifetime = 10 THEN {20} ELSE {})

\* The windows of the inverter expenditure: simulation periods within the
\* lifetime of the system.
InverterWindows ==
    LET points == (0..MaxLocationYears) \cup {10, 20}
    IN  {w \in points \X points : w[1] < w[2]}

\* The "Maximum" column of the yearly load statistics, in W, one row for
\* every year of the lifetime of the system.
LoadKinds == {"rising", "falling", "level"}

YearlyMaximum(kind, max_years) ==
    [i \in 1..max_years |->
        CASE kind = "rising"  -> 400 + 700 * (i - 1)
          [] kind = "falling" -> 9000 - 400 * (i - 1)
          [] kind = "level"   -> 1500]

Call_inverter_expenditure ==
    /\ Idle
    /\ \E max_years \in LocationYears, kind \in LoadKinds, w \in InverterWindows :
        LET maximum == YearlyMaximum(kind, max_years)
            r == _inverter_expenditure(finance_inputs, max_years, maximum, w[1], w[2])
        IN  /\ Idle
            /\ call' = [op |-> "_inverter_expenditure", max_years |-> max_years,
                        maximum |-> maximum, start_year |-> w[1], end_year |-> w[2]]
            /\ ret' = r
            /\ locals' = IF r.kind = "returned" /\ DISCOUNT_RATE \in DOMAIN finance_inputs
                         THEN [inverter_info |->
                                  inverter_info(finance_inputs, max_years, maximum)]
                         ELSE NoLocals
            /\ UNCHANGED <<finance_inputs, threads, files>>

\* The numbers of households over the simulation: every series of up to
\* MaxHouseholdsLen numbers out of three, and two series of five numbers.
HouseholdSeries ==
    UNION {[1..n -> {10, 15, 20}] : n \in 1..MaxHouseholdsLen}
        \cup {<<10, 10, 10, 20, 20>>, <<20, 10, 15, 10, 20>>}

\* connections_expenditure that takes the households entry out of the finance
\* inputs as it reads it.
Call_connections_expenditure_popping ==
    /\ Idle
    /\ \E households \in HouseholdSeries, installation_year \in 0..MaxInstallYear :
        /\ call' = [op |-> "connections_expenditure", households |-> households,
                    installation_year |-> installation_year]
        /\ ret' = connections_expenditure(finance_inputs, households, installation_year)
        /\ locals' = NoLocals
        /\ finance_inputs' = [k \in DOMAIN finance_inputs \ {HOUSEHOLDS} |->
                                 finance_inputs[k]]
        /\ UNCHANGED <<threads, files>>

Call_connections_expenditure ==
    /\ Idle
    /\ \E households \in HouseholdSeries, installation_year \in 0..MaxInstallYear :
        /\ Idle
        /\ call' = [op |-> "connections_expenditure", households |-> households,
                    installation_year |-> installation_year]
        /\ ret' = connections_expenditure(finance_inputs, households, installation_year)
        /\ locals' = NoLocals
        /\ UNCHANGED <<finance_inputs, threads, files>>

\* Hourly profiles of a number of whole days: one unit every hour, or a use
\* that changes from hour to hour and from day to day.
HourlyKinds == {"steady", "ramp"}

HourlySeries(kind, days) ==
    DataFrame([h \in 1..(HoursPerDay * days) |->
        CASE kind = "steady" -> One
          [] kind = "ramp"   -> Int2R(h % 5)])

\* The hourly profiles tried for a window: the use of a single day and, with
\* the finance inputs that hold every optional entry (no operation on an
\* hourly profile reads one), a changing use over the days of the window.
UsageProfiles(w) ==
    {HourlySeries("ramp", 1), HourlySeries("steady", 1)}
        \cup (IF OptionalKeys \subseteq DOMAIN finance_inputs
              THEN {HourlySeries("ramp", WindowDays(w))}
              ELSE {})

\* The profiles of the fuel use: those, and a use over one day less than the
\* window.
FuelProfiles(w) ==
    UsageProfiles(w)
        \cup (IF OptionalKeys \subseteq DOMAIN finance_inputs
              THEN {HourlySeries("ramp", WindowDays(w) - 1)}
              ELSE {})

Call_diesel_fuel_expenditure ==
    /\ Idle
    /\ \E w \in YearWindows :
        \E diesel_fuel_usage_hourly \in FuelProfiles(w) :
            /\ Idle
            /\ call' = [op |-> "diesel_fuel_expenditure",
                        diesel_fuel_usage_hourly |-> diesel_fuel_usage_hourly,
                        start_year |-> w[1], end_year |-> w[2]]
            /\ ret' = diesel_fuel_expenditure(diesel_fuel_usage_hourly, finance_inputs,
                                              w[1], w[2])
            /\ locals' =
                  LET total_daily_cost ==
                          numpy_multiply(
                              hourly_profile_to_daily_sum(diesel_fuel_usage_hourly),
                              diesel_price_daily(finance_inputs[DIESEL_FUEL].cost,
                                                 w[1] * 365, w[2] * 365))
                  IN  IF DIESEL_FUEL \in DOMAIN finance_inputs
                         /\ total_daily_cost.kind = "returned"
                      THEN [total_daily_cost |-> total_daily_cost.value]
                      ELSE NoLocals
            /\ UNCHANGED <<finance_inputs, threads, files>>

\* The components whose use is costed.
UsageComponents == {DIESEL_FUEL, PV}

Call_expenditure ==
    /\ Idle
    /\ \E component \in UsageComponents, w \in YearWindows :
        \E hourly_usage \in UsageProfiles(w) :
            LET total_daily_cost ==
                    hourly_profile_to_daily_sum(
                        DataFrame([h \in 1..Len(hourly_usage) |->
                            RMul(hourly_usage[h], finance_inputs[component].cost)]))
            IN  /\ Idle
                /\ call' = [op |-> "expenditure", component |-> component,
                            hourly_usage |-> hourly_usage,
                            start_year |-> w[1], end_year |-> w[2]]
                /\ ret' = expenditure(component, finance_inputs, hourly_usage, w[1], w[2])
                /\ locals' =
                      IF component \in DOMAIN finance_inputs
                      THEN [total_daily_cost |-> total_daily_cost]
                      ELSE NoLocals
                /\ UNCHANGED <<finance_inputs, threads, files>>

-----------------------------------------------------------------------------
(* The profile of the whole simulation. *)

\* pandas.concat([a, b], ignore_index=True): the columns of a and after
\* them those of b that a does not have, and the rows of a and of b.
pd_concat(a, b) ==
    LET names == {a.columns[i] : i \in 1..Len(a.columns)}
    IN  Frame(a.columns \o SelectSeq(b.columns, LAMBDA c : c \notin names),
              ConcatRows(a.rows, b.rows))

\* pandas.DataFrame([])
EmptyFrame == Frame(<<>>, <<>>)

\* output after the files of the years start_year + 0 .. start_year + n - 1
\* are read, or the error of open for a file that does not exist.
RECURSIVE ReadYears(_, _, _, _)
ReadYears(dir, name, start_year, n) ==
    IF n <= 0 THEN Returned(EmptyFrame)
    ELSE LET output         == ReadYears(dir, name, start_year, n - 1)
             iteration_year == start_year + (n - 1)
         IN  IF output.kind # "returned" THEN output
             ELSE IF ~isfile(dir, YearFile(name, iteration_year))
             THEN Raised("FileNotFoundError")
             ELSE Returned(pd_concat(output.value,
                                     read_csv(dir[YearFile(name, iteration_year)])))

\* total_output after output is put at its end n times.
RECURSIVE Repeated(_, _)
Repeated(output, n) ==
    IF n <= 0 THEN EmptyFrame ELSE pd_concat(Repeated(output, n - 1), output)

\* math.ceil(num_years / 10)
CeilTenth(num_years) == -((-num_years) \div 10)

\* total_profile_output that takes the years that were read once.
total_profile_output_once(dir, regenerate, start_year, num_years, name) ==
    LET total_output_filename == TotalFile(name, num_years)
        output == ReadYears(dir, name, start_year, Min2(10, num_years))
    IN  IF isfile(dir, total_output_filename) /\ ~regenerate
        THEN [ret |-> Returned(read_csv(dir[total_output_filename])), files |-> dir]
        ELSE IF output.kind # "returned" THEN [ret |-> output, files |-> dir]
        ELSE [ret   |-> output,
              files |-> WriteFile(dir, total_output_filename, to_csv(output.value))]

\* The profile of num_years years and the directory after the call: the
\* total file is read when it exists and the profiles are not regenerated;
\* else the files of the first min(10, num_years) years are read and put
\* together, that is repeated ceil(num_years / 10) times, and the result is
\* written to the total file.
total_profile_output(dir, regenerate, start_year, num_years, name) ==
    LET total_output_filename == TotalFile(name, num_years)
        output == ReadYears(dir, name, start_year, Min2(10, num_years))
    IN  IF isfile(dir, total_output_filename) /\ ~regenerate
        THEN [ret |-> Returned(read_csv(dir[total_output_filename])), files |-> dir]
        ELSE IF output.kind # "returned" THEN [ret |-> output, files |-> dir]
        ELSE LET total_output == Repeated(output.value, CeilTenth(num_years))
             IN  [ret   |-> Returned(total_output),
                  files |-> WriteFile(dir, total_output_filename, to_csv(total_output))]

\* The years that a request is made for: the years of the threads and a
\* leap year before them.
RequestYears == EndYears \cup {FirstYear - 3}

Call_get_profile_from_rn ==
    /\ Idle
    /\ \E kind \in ResponseKinds, year \in RequestYears :
        /\ call' = [op |-> "_get_profile_from_rn", kind |-> kind, year |-> year]
        /\ ret' = _get_profile_from_rn([kind |-> kind, fetch |-> 1], year)
        /\ locals' = NoLocals
        /\ UNCHANGED <<finance_inputs, threads, files>>

\* The time differences that a profile is moved by, in hours.
TimeDifferences ==
    LocationTimeDifferences
        \cup {One, Int2R(-1), Norm(5, 2), Norm(7, 2), Norm(-5, 2), Norm(-27, 5),
              Norm(9, 2), Int2R(6), Int2R(-6)}

\* Short profiles in UTC: the first hours of a year, a profile with a gap
\* and a profile whose rows come twice.
ShortProfiles ==
    {Frame(<<ELECTRICITY>>, <<Segment(FirstYear, 1, 0, n - 1)>>) : n \in 6..MaxProfileRows}
        \cup {Frame(<<ELECTRICITY>>,
                    <<Segment(FirstYear, 1, 0, 2), Segment(FirstYear, 1, 5, 8)>>),
              Frame(<<ELECTRICITY, TEMPERATURE>>,
                    <<Segment(FirstYear, 1, 0, 2), Segment(FirstYear, 1, 0, 2)>>)}

Call_get_profile_local_time ==
    /\ Idle
    /\ \E data_utc \in ShortProfiles, time_difference \in TimeDifferences :
        /\ call' = [op |-> "_get_profile_local_time", data_utc |-> data_utc,
                    time_difference |-> time_difference]
        /\ ret' = Returned(_get_profile_local_time(data_utc, time_difference))
        /\ locals' = NoLocals
        /\ UNCHANGED <<finance_inputs, threads, files>>

\* The numbers of years of a simulation, and the years it starts in.
NumYears == {1, 10, 15, 20, 21}

StartYears == {FirstYear, FirstYear + 1}

Call_total_profile_output ==
    /\ Idle
    /\ \E regenerate \in BOOLEAN, start_year \in StartYears, num_years \in NumYears :
        LET r == total_profile_output(files, regenerate, start_year, num_years, "solar")
        IN  /\ call' = [op |-> "total_profile_output", regenerate |-> regenerate,
                        start_year |-> start_year, num_years |-> num_years,
                        profile_name |-> "solar"]
            /\ ret' = r.ret
            /\ files' = r.files
            /\ locals' = NoLocals
            /\ UNCHANGED <<finance_inputs, threads>>

\* The caller takes the result (or the error) of the call; nothing of the
\* call is kept.
Return ==
    /\ ~Idle
    /\ call' = [op |-> "none"]
    /\ ret' = [kind |-> "none"]
    /\ locals' = NoLocals
    /\ UNCHANGED <<finance_inputs, threads, files>>

-----------------------------------------------------------------------------
(* The steps of the threads. *)

finance_vars == <<finance_inputs, call, ret, locals>>

\* A thread of the class is made and started.
Start(cls, regenerate, sleep_multiplier, end_year, has_token, time_difference) ==
    /\ threads[cls].pc \in {"none", "finished", "raised"}
    /\ threads[cls].runs < MaxRuns
    /\ threads' = [threads EXCEPT ![cls] =
            [pc |-> "started", regenerate |-> regenerate,
             sleep_multiplier |-> sleep_multiplier,
             time_difference |-> time_difference, has_token |-> has_token,
             end_year |-> end_year, year |-> FirstYear, sleep_left |-> 0,
             trace |-> <<>>, error |-> NoError,
             missing |-> IF HasProfileName(cls)
                         THEN MissingYears(files, profile_name(cls), FirstYear..end_year)
                         ELSE {},
             runs |-> threads[cls].runs + 1,
             since_request |-> threads[cls].since_request,
             gap |-> -1, own_gap |-> -1]]
    /\ UNCHANGED <<files, finance_vars>>

\* run up to its first sleep: self.profile_name raises AttributeError for a
\* thread of the base class, and a thread of a child sleeps for a random
\* number of seconds, of which the trace keeps the limit.
Run_begin(cls) ==
    /\ threads[cls].pc = "started"
    /\ IF ~HasProfileName(cls)
       THEN threads' = [threads EXCEPT ![cls].pc = "raised",
                                       ![cls].error = Raised("AttributeError")]
       ELSE \E seconds \in 0..(RENEWABLES_NINJA_SLEEP_TIME * threads[cls].sleep_multiplier) :
               threads' = [threads EXCEPT
                              ![cls].pc = "sleeping",
                              ![cls].sleep_left = seconds,
                              ![cls].trace = Append(@, Event("random sleep",
                                  RENEWABLES_NINJA_SLEEP_TIME * threads[cls].sleep_multiplier))]
    /\ UNCHANGED <<files, finance_vars>>

\* One round of the loop of run, for the year the thread is at, with the
\* reply of the API to a request.
Run_year(cls, kind) ==
    LET thread   == threads[cls]
        year     == thread.year
        filepath == YearFile(profile_name(cls), year)
        others   == {threads[c].since_request : c \in Classes \ {cls}} \ {-1}
        sending  == Requesting(thread, others)
        response == [kind |-> kind, fetch |-> thread.runs]
        fetched  == _get_profile_output(thread.time_difference, response, year)
        data     == IF fetched.kind = "returned" THEN data_to_save(cls, fetched.value)
                    ELSE fetched
        sleeps   == sleep_after_year(thread, year)
    IN  /\ thread.pc = "sleeping"
        /\ thread.sleep_left = 0
        /\ IF skip_year(files, thread, filepath)
           THEN /\ threads' = [threads EXCEPT ![cls] =
                        NextYear([thread EXCEPT !.trace = Append(@, Event("skip", year))])]
                /\ UNCHANGED files
           ELSE IF ~thread.has_token
           THEN /\ threads' = [threads EXCEPT ![cls] =
                        raise_out_of_run(thread, KeyError(TOKEN))]
                /\ UNCHANGED files
           ELSE IF data.kind # "returned"
           THEN /\ threads' = [threads EXCEPT ![cls] = raise_out_of_run(sending, data)]
                /\ UNCHANGED files
           ELSE /\ files' = WriteFile(files, filepath, to_csv(data.value))
                /\ threads' = [threads EXCEPT ![cls] =
                        NextYear([sending EXCEPT
                            !.trace = (@ \o <<Event("write", year)>>) \o sleeps,
                            !.sleep_left = IF sleeps = <<>> THEN 0 ELSE sleeps[1].n])]
        /\ UNCHANGED finance_vars

\* The time passes until the first of the sleeping threads wakes up.
Tick ==
    LET sleepers == {c \in Classes : threads[c].pc = "sleeping" /\ threads[c].sleep_left > 0}
        seconds  == Least({threads[c].sleep_left : c \in sleepers})
    IN  /\ sleepers # {}
        /\ threads' = [c \in Classes |->
              [threads[c] EXCEPT
                  !.sleep_left = IF c \in sleepers THEN @ - seconds ELSE @,
                  !.since_request =
                      IF @ < 0 THEN @
                      ELSE Min2(@ + seconds, LongestSleep)]]
        /\ UNCHANGED <<files, finance_vars>>

Next ==
    \/ Call_discounted_fraction
    \/ Call_discounted_energy_total
    \/ Call_get_total_equipment_cost
    \/ Call_total_om
    \/ Call_discounted_equipment_cost
    \/ Call_component_cost
    \/ Call_component_om
    \/ Call_inverter_expenditure
    \/ Call_connections_expenditure
    \/ Call_diesel_fuel_expenditure
    \/ Call_expenditure
    \/ Return

Spec == Init /\ [][Next]_vars

\* The operations are independent of one another: the specifications below
\* are Spec restricted to the calls of one part of the module.
NextDiscounting ==
    \/ Call_discounted_fraction
    \/ Call_discounted_energy_total
    \/ Return

SpecDiscounting == Init /\ [][NextDiscounting]_vars

NextEquipmentCost ==
    \/ Call_get_total_equipment_cost
    \/ Return

SpecEquipmentCost == Init /\ [][NextEquipmentCost]_vars

NextDiscountedEquipment ==
    \/ Call_discounted_equipment_cost
    \/ Return

SpecDiscountedEquipment == Init /\ [][NextDiscountedEquipment]_vars

\* The generation module on its own: the finance inputs play no part in it.
InitGeneration ==
    /\ Init
    /\ finance_inputs = FinanceInputs("flat", {})

\* The files of the years that the profile of a simulation may be made of,
\* as a thread that fetched them wrote them.
FetchedFiles(name, years) ==
    [f \in {YearFile(name, y) : y \in years} |->
        to_csv(data_to_save("SolarDataThread",
                   _get_profile_output(Norm(11, 2), [kind |-> "profile", fetch |-> 1],
                                       f.n).value).value)]

\* The generation module after the files of the years were fetched, all of
\* them or all but one.
InitProfiles ==
    /\ finance_inputs = FinanceInputs("flat", {})
    /\ call = [op |-> "none"]
    /\ ret = [kind |-> "none"]
    /\ locals = NoLocals
    /\ threads = [cls \in Classes |-> NoThread]
    /\ \E gone \in {{}, {FirstYear + 3}} :
          files = FetchedFiles("solar", (FirstYear..(FirstYear + 10)) \ gone)

NextProfiles ==
    \/ Call_get_profile_from_rn
    \/ Call_get_profile_local_time
    \/ Call_total_profile_output
    \/ Return

SpecProfiles == InitProfiles /\ [][NextProfiles]_vars

\* The threads of one child class, one after another, and the threads of
\* the base class.
NextFetch ==
    \/ \E regenerate \in BOOLEAN, sleep_multiplier \in SleepMultipliers,
          end_year \in EndYears, has_token \in BOOLEAN :
            Start("SolarDataThread", regenerate, sleep_multiplier, end_year,
                  has_token, Norm(11, 2))
    \/ Start("BaseRenewablesNinjaThread", FALSE, 1, FirstYear, TRUE, Zero)
    \/ \E cls \in {"SolarDataThread", "BaseRenewablesNinjaThread"} : Run_begin(cls)
    \/ \E kind \in ResponseKinds : Run_year("SolarDataThread", kind)
    \/ Tick

SpecFetch == InitGeneration /\ [][NextFetch]_vars

\* The threads of the two child classes side by side, with the sleep
\* multiplier of two threads and with replies that hold data.
NextConcurrent ==
    \/ \E cls \in {"SolarDataThread", "WindDataThread"} :
            Start(cls, TRUE, Cardinality({"SolarDataThread", "WindDataThread"}),
                  FirstYear + MaxFetchSpan, TRUE, Zero)
    \/ \E cls \in {"SolarDataThread", "WindDataThread"} : Run_begin(cls)
    \/ \E cls \in {"SolarDataThread", "WindDataThread"} : Run_year(cls, "profile")
    \/ Tick

SpecConcurrent == InitGeneration /\ [][NextConcurrent]_vars

NextEquipment ==
    \/ Call_get_total_equipment_cost
    \/ Call_total_om
    \/ Return

SpecEquipment == Init /\ [][NextEquipment]_vars

NextInverter ==
    \/ Call_inverter_expenditure
    \/ Return

SpecInverter == Init /\ [][NextInverter]_vars

NextComponentCost ==
    \/ Call_component_cost
    \/ Return

SpecComponentCost == Init /\ [][NextComponentCost]_vars

NextOm ==
    \/ Call_total_om
    \/ Call_component_om
    \/ Return

SpecOm == Init /\ [][NextOm]_vars

NextDailySeries ==
    \/ Call_component_om
    \/ Call_diesel_fuel_expenditure
    \/ Call_expenditure
    \/ Return

SpecDailySeries == Init /\ [][NextDailySeries]_vars

NextUsage ==
    \/ Call_diesel_fuel_expenditure
    \/ Call_expenditure
    \/ Return

SpecUsage == Init /\ [][NextUsage]_vars

NextConnections ==
    \/ Call_connections_expenditure
    \/ Return

SpecConnections == Init /\ [][NextConnections]_vars

-----------------------------------------------------------------------------
(* Properties of _discounted_fraction and discounted_energy_total. *)

\* The polynomial of the first n days of a window that starts in start_year:
\* series[k + 1] at the day start_year * 365 + k, for k in 0 .. n - 1.
WindowTotal(series, start_year, n) ==
    PTrim([e \in (1 - start_year * 365 - n)..(-(start_year * 365)) |->
              series[1 - e - start_year * 365]])

C2_MismatchRaises ==
    (/\ call.op = "discounted_energy_total"
     /\ Len(call.total_daily) # (call.end_year - call.start_year) * 365)
        => ret.kind \notin {"returned", "none"}

\* C2 as amended: with a discount rate in the finance inputs, a daily series
\* that is shorter or longer than the window raises nothing:
\* discounted_energy_total returns the total of the days that both the
\* series and the window have, the first min(length, window) of them.
C2_MismatchIsTruncated ==
    (/\ call.op = "discounted_energy_total"
     /\ Len(call.total_daily) # (call.end_year - call.start_year) * 365
     /\ DISCOUNT_RATE \in DOMAIN finance_inputs)
        => ret = Returned(
                    [root365 |-> RAdd(One, finance_inputs[DISCOUNT_RATE]),
                     coef    |-> WindowTotal(call.total_daily, call.start_year,
                                    Min2(Len(call.total_daily),
                                         (call.end_year - call.start_year) * 365))])

\* A series of 265 days for a window of one year, with its total returned.
C2_Witness ==
    /\ call.op = "discounted_energy_total"
    /\ Len(call.total_daily) = 265
    /\ call.end_year - call.start_year = 1
    /\ ret.kind = "returned"
    /\ Cardinality(DOMAIN ret.value.coef) = 265

\* C3: for a daily series of the window's length, discounted_energy_total
\* returns the sum over the days k of the window of
\* daily_series[k] * discounted_fraction[k], for the discount rate of the
\* finance inputs and the same window.
C3_TotalIsSumOfProducts ==
    (/\ call.op = "discounted_energy_total"
     /\ Len(call.total_daily) = (call.end_year - call.start_year) * 365
     /\ DISCOUNT_RATE \in DOMAIN finance_inputs)
        => LET fraction == _discounted_fraction(
                               finance_inputs[DISCOUNT_RATE],
                               call.start_year, call.end_year).value
               n == Len(call.total_daily)
           IN  /\ Len(fraction.values) = n
               /\ ret.kind = "returned"
               /\ ret.value.root365 = fraction.root365
               /\ ret.value.coef =
                     PTrim([e \in {fraction.values[k].exp : k \in 1..n} |->
                              RMul(call.total_daily[fraction.values[1].exp - e + 1],
                                   fraction.values[fraction.values[1].exp - e + 1].coef)])
               /\ \A k \in 1..n : fraction.values[k].exp = fraction.values[1].exp - (k - 1)

\* A series that changes from day to day, over a window that starts after
\* year 0.
C3_Witness ==
    /\ call.op = "discounted_energy_total"
    /\ call.start_year = 1
    /\ Len(call.total_daily) = (call.end_year - call.start_year) * 365
    /\ call.total_daily[2] # call.total_daily[3]
    /\ ret.kind = "returned"
    /\ -366 \in DOMAIN ret.value.coef /\ ret.value.coef[-366] = call.total_daily[2]

-----------------------------------------------------------------------------
(* Properties of get_total_equipment_cost and total_om. *)

\* The size that a call passes for an optional component.
SizeOf(c, k) ==
    CASE k = CLEAN_WATER_TANK -> c.clean_water_tanks
      [] k = HOT_WATER_TANK   -> c.hot_water_tanks
      [] k = PV_T             -> c.pvt_array_size
      [] k = DIESEL           -> c.diesel_size
      [] k = PV               -> c.pv_array_size
      [] k = STORAGE          -> c.storage_size

\* The optional components of positive size that have no entry.
MissingOptional ==
    {k \in OptionalKeys : RLess(Zero, SizeOf(call, k)) /\ k \notin DOMAIN finance_inputs}

\* The required entries that an operation reads whatever the sizes are.
RequiredOf(op) ==
    CASE op = "get_total_equipment_cost" -> {BOS, DIESEL, PV, STORAGE, MISC}
      [] op = "total_om" -> {DIESEL, GENERAL_OM, PV, STORAGE, DISCOUNT_RATE}

\* C4 as claimed: in get_total_equipment_cost and total_om, an optional
\* component of positive size without an entry in the finance inputs makes
\* the call raise InputFileError.
C4_MissingOptionalRaisesInputFileError ==
    (call.op \in {"get_total_equipment_cost", "total_om"} /\ MissingOptional # {})
        => ret.kind = "InputFileError"

\* C4 as amended: such a call returns no value; it raises InputFileError
\* when the finance inputs hold every required entry the operation reads,
\* and InputFileError or the KeyError of a missing required entry otherwise.
C4_MissingOptionalRaises ==
    (call.op \in {"get_total_equipment_cost", "total_om"} /\ MissingOptional # {})
        => /\ ret.kind \in {"InputFileError", "KeyError"}
           /\ ret.kind = "KeyError" =>
                 ret.key \in RequiredOf(call.op) \ DOMAIN finance_inputs
           /\ RequiredOf(call.op) \subseteq DOMAIN finance_inputs =>
                 ret.kind = "InputFileError"

\* Hot-water tanks without an entry, all the other entries being there, in a
\* call of get_total_equipment_cost that ends with InputFileError.
C4_Witness ==
    /\ call.op = "get_total_equipment_cost"
    /\ MissingOptional = {HOT_WATER_TANK}
    /\ DOMAIN finance_inputs = AllKeys \ {HOT_WATER_TANK}
    /\ ret.kind = "InputFileError"

\* The local variables of get_total_equipment_cost that hold the capital and
\* the installation cost of an optional component.
ContributionOf(l, k) ==
    CASE k = CLEAN_WATER_TANK ->
            RAdd(l.clean_water_tank_cost, l.clean_water_tank_installation_cost)
      [] k = HOT_WATER_TANK ->
            RAdd(l.hot_water_tank_cost, l.hot_water_tank_installation_cost)
      [] k = PV_T -> RAdd(l.pvt_cost, l.pvt_installation_cost)

\* The call of get_total_equipment_cost in progress, made with other finance
\* inputs.
EquipmentCostWith(fin) ==
    get_total_equipment_cost(call.clean_water_tanks, call.diesel_size, fin,
                             call.hot_water_tanks, call.pv_array_size,
                             call.pvt_array_size, call.storage_size,
                             call.installation_year)

\* C5: for an optional component of size 0 (clean-water tanks, hot-water
\* tanks, PV-T), get_total_equipment_cost raises no error about that
\* component and returns a total to which the component adds nothing,
\* whether the finance inputs hold its entry or not.
C5_ZeroSizeNeedsNoEntry ==
    call.op = "get_total_equipment_cost" =>
        \A k \in OptionalKeys :
            SizeOf(call, k) = Zero =>
                /\ ret.kind = "KeyError" => ret.key # k
                /\ ret.kind = "InputFileError" => MissingOptional # {}
                /\ (RequiredOf(call.op) \subseteq DOMAIN finance_inputs
                        /\ MissingOptional = {}) => ret.kind = "returned"
                /\ ret.kind = "returned" => ContributionOf(locals, k) = Zero
                /\ ret = EquipmentCostWith(
                            [x \in DOMAIN finance_inputs \ {k} |-> finance_inputs[x]])
                /\ ret = EquipmentCostWith(
                            [x \in DOMAIN finance_inputs \cup {k} |->
                                IF x = k THEN Entry("half", k) ELSE finance_inputs[x]])

\* No clean-water tank and no entry for it, and a total is returned.
C5_Witness ==
    /\ call.op = "get_total_equipment_cost"
    /\ call.clean_water_tanks = Zero
    /\ CLEAN_WATER_TANK \notin DOMAIN finance_inputs
    /\ RLess(Zero, call.hot_water_tanks)
    /\ ret.kind = "returned"
    /\ RLess(Zero, ret.value)

\* The capital cost of a component of the call in progress at its own size.
CapitalAt(k, size) ==
    IF k \in OptionalKeys /\ ~RLess(Zero, size) THEN Zero
    ELSE RMul(RMul(size, finance_inputs[k].cost),
              RPow(RSub(One, RMul(Percent(1), finance_inputs[k].cost_decrease)),
                   call.installation_year))

\* C6: get_total_equipment_cost returns the capital and the installation
\* cost of the components, each at the size of its own component, plus
\* misc_cost * (pv_array_size + diesel_size): BOS and PV at pv_array_size,
\* diesel at diesel_size, PV-T at pvt_array_size, storage at storage_size and
\* the tanks at their counts; storage and BOS have no installation cost.
C6_EveryTermAtItsOwnSize ==
    (call.op = "get_total_equipment_cost" /\ ret.kind = "returned") =>
        /\ locals.diesel_cost = CapitalAt(DIESEL, call.diesel_size)
        /\ locals.diesel_installation_cost = CapitalAt(DIESEL, call.diesel_size)
        /\ locals.pvt_cost = CapitalAt(PV_T, call.pvt_array_size)
        /\ locals.pvt_installation_cost = CapitalAt(PV_T, call.pvt_array_size)
        /\ locals.pv_cost = CapitalAt(PV, call.pv_array_size)
        /\ locals.pv_installation_cost = CapitalAt(PV, call.pv_array_size)
        /\ locals.storage_cost = CapitalAt(STORAGE, call.storage_size)
        /\ locals.clean_water_tank_cost =
              CapitalAt(CLEAN_WATER_TANK, call.clean_water_tanks)
        /\ locals.hot_water_tank_cost = CapitalAt(HOT_WATER_TANK, call.hot_water_tanks)
        /\ ret.value =
              RAdd(RAdd(RAdd(RAdd(RAdd(RAdd(RAdd(
                  CapitalAt(BOS, call.pv_array_size),
                  RMul(Int2R(2), CapitalAt(CLEAN_WATER_TANK, call.clean_water_tanks))),
                  RMul(Int2R(2), CapitalAt(DIESEL, call.diesel_size))),
                  RMul(Int2R(2), CapitalAt(HOT_WATER_TANK, call.hot_water_tanks))),
                  RMul(Int2R(2), CapitalAt(PV, call.pv_array_size))),
                  RMul(Int2R(2), CapitalAt(PV_T, call.pvt_array_size))),
                  CapitalAt(STORAGE, call.storage_size)),
                  RMul(finance_inputs[MISC].cost,
                       RAdd(call.pv_array_size, call.diesel_size)))

-----------------------------------------------------------------------------
(* Properties of _inverter_expenditure. *)

\* The sum of the rationals f[x] for x in S.
RECURSIVE SumOver(_, _)
SumOver(f, S) ==
    IF S = {} THEN Zero
    ELSE LET x == CHOOSE y \in S : TRUE
         IN  RAdd(f[x], SumOver(f, S \ {x}))

\* The installation years of the replacement events of the call in progress
\* that fall in its window: the multiples y of the inverter lifetime with
\* 0 <= y < max_years and start_year <= y < end_year.
EventsInWindow ==
    {y \in 0..(call.max_years - 1) :
        /\ y % finance_inputs[INVERTER].lifetime = 0
        /\ call.start_year <= y
        /\ y < call.end_year}

\* The discounted expenditure of the replacement event of year y, as the
\* call in progress computes it.
EventExpenditure(y) ==
    inverter_row(finance_inputs, call.maximum, y).discounted_expenditure

\* The exact sum of the discounted expenditure of the events in the window.
WindowExpenditure == SumOver([y \in EventsInWindow |-> EventExpenditure(y)], EventsInWindow)

\* C7 as claimed: _inverter_expenditure returns the sum of the discounted
\* expenditure of exactly the replacement events in the window, and 0 when
\* there is none.
C7_SumOfEventsInWindow ==
    (/\ call.op = "_inverter_expenditure"
     /\ {INVERTER, DISCOUNT_RATE} \subseteq DOMAIN finance_inputs)
        => ret = Returned(WindowExpenditure)

\* C7 as amended: _inverter_expenditure returns that sum rounded to two
\* decimal places, and 0 when there is no event in the window.
C7_RoundedSumOfEventsInWindow ==
    (/\ call.op = "_inverter_expenditure"
     /\ {INVERTER, DISCOUNT_RATE} \subseteq DOMAIN finance_inputs)
        => /\ ret = Returned(RRound2(WindowExpenditure))
           /\ EventsInWindow = {} => ret = Returned(Zero)

\* A lifetime of 10 in a system of 20 years, for the window of the years 0
\* to 10: the event of year 0 is the only one that is counted, and the event
\* of year 10 has a cost.
C7_Witness ==
    /\ call.op = "_inverter_expenditure"
    /\ {INVERTER, DISCOUNT_RATE} \subseteq DOMAIN finance_inputs
    /\ finance_inputs[INVERTER].lifetime = 10
    /\ call.max_years = 20
    /\ call.start_year = 0 /\ call.end_year = 10
    /\ EventsInWindow = {0}
    /\ ret = Returned(RRound2(EventExpenditure(0)))
    /\ RLess(One, EventExpenditure(0))
    /\ RLess(One, EventExpenditure(10))

\* The peak load, in kW, of the years [y, y + lifetime) of the table of the
\* call in progress.
PeakLoad(y) ==
    LET rows == {j \in 1..Len(call.maximum) :
                    j > y /\ j <= y + finance_inputs[INVERTER].lifetime}
        peak == CHOOSE p \in {call.maximum[j] : j \in rows} :
                    \A j \in rows : call.maximum[j] <= p
    IN  Norm(peak, 1000)

\* C8: the size of the inverter of every replacement year y is the least
\* multiple of size_increment that is not less than the peak load of the
\* years [y, y + lifetime): a multiple of the increment, at least the peak,
\* and less than one increment above it.
C8_SizeIsPeakRoundedUp ==
    (call.op = "_inverter_expenditure" /\ locals # NoLocals) =>
        LET step == finance_inputs[INVERTER].size_increment
        IN  /\ Len(locals.inverter_info) =
                  Cardinality({y \in 0..(call.max_years - 1) :
                                  y % finance_inputs[INVERTER].lifetime = 0})
            /\ \A i \in 1..Len(locals.inverter_info) :
                  LET row  == locals.inverter_info[i]
                      peak == PeakLoad(row.installation_year)
                  IN  /\ row.installation_year = (i - 1) * finance_inputs[INVERTER].lifetime
                      /\ RDiv(row.inverter_size, step)[2] = 1
                      /\ RLeq(peak, row.inverter_size)
                      /\ RLess(RSub(row.inverter_size, step), peak)

\* A replacement whose peak load is in the second year of its interval and
\* is no multiple of the increment, and one whose peak load is a multiple.
C8_Witness ==
    /\ call.op = "_inverter_expenditure" /\ locals # NoLocals
    /\ \E i \in 1..Len(locals.inverter_info) :
          LET row == locals.inverter_info[i]
          IN  /\ row.installation_year > 0
              /\ row.installation_year + 2 <= Len(call.maximum)
              /\ PeakLoad(row.installation_year)
                    = Norm(call.maximum[row.installation_year + 2], 1000)
              /\ call.maximum[row.installation_year + 1]
                    < call.maximum[row.installation_year + 2]
              /\ RLess(PeakLoad(row.installation_year), row.inverter_size)

\* C9: the discounted expenditure of the replacement of year y is
\* (1 - discount_rate) ** y * inverter_size(y) * unit_cost
\* * (1 - 0.01 * cost_decrease) ** y: both rates are compounded over y.
C9_BothRatesCompoundOverYear ==
    (call.op = "_inverter_expenditure" /\ locals # NoLocals) =>
        \A i \in 1..Len(locals.inverter_info) :
            LET row  == locals.inverter_info[i]
                both == RMul(RSub(One, finance_inputs[DISCOUNT_RATE]),
                             RSub(One, RMul(Percent(1),
                                            finance_inputs[INVERTER].cost_decrease)))
            IN  row.discounted_expenditure =
                    RMul(RPow(both, row.installation_year),
                         RMul(row.inverter_size, finance_inputs[INVERTER].cost))

\* A replacement after two lifetimes, with a discount rate and a cost
\* decrease that are not 0.
C9_Witness ==
    /\ call.op = "_inverter_expenditure" /\ locals # NoLocals
    /\ finance_inputs[DISCOUNT_RATE] # Zero
    /\ finance_inputs[INVERTER].cost_decrease # Zero
    /\ \E i \in 1..Len(locals.inverter_info) :
          /\ locals.inverter_info[i].installation_year
                = 2 * finance_inputs[INVERTER].lifetime
          /\ RLess(Zero, locals.inverter_info[i].discounted_expenditure)

-----------------------------------------------------------------------------
(* Properties of connections_expenditure. *)

\* The greatest and the least number of a series of households.
GreatestOf(h) == CHOOSE x \in {h[i] : i \in DOMAIN h} : \A i \in DOMAIN h : h[i] <= x

LeastOf(h) == CHOOSE x \in {h[i] : i \in DOMAIN h} : \A i \in DOMAIN h : x <= h[i]

Reversed(h) == [i \in 1..Len(h) |-> h[Len(h) + 1 - i]]

Rotated(h) == [i \in 1..Len(h) |-> h[(i % Len(h)) + 1]]

\* C10: connections_expenditure returns
\* (max(households) - min(households)) * unit_connection_cost
\* * (1 - discount_rate) ** installation_year, whatever the order of the
\* series is; for [10,10,10,20,20], a unit cost of 50, a discount rate of
\* 0.1 and the installation year 2 it returns 405.
C10_ConnectionsCostOfRange ==
    (/\ call.op = "connections_expenditure"
     /\ {HOUSEHOLDS, DISCOUNT_RATE} \subseteq DOMAIN finance_inputs)
        => /\ ret = Returned(
                     RMul(RMul(Int2R(GreatestOf(call.households) - LeastOf(call.households)),
                               finance_inputs[HOUSEHOLDS].connection_cost),
                          RPow(RSub(One, finance_inputs[DISCOUNT_RATE]),
                               call.installation_year)))
           /\ ret = connections_expenditure(finance_inputs, Reversed(call.households),
                                            call.installation_year)
           /\ ret = connections_expenditure(finance_inputs, Rotated(call.households),
                                            call.installation_year)
           /\ (/\ call.households = <<10, 10, 10, 20, 20>>
               /\ finance_inputs[HOUSEHOLDS].connection_cost = Int2R(50)
               /\ finance_inputs[DISCOUNT_RATE] = Norm(1, 10)
               /\ call.installation_year = 2) => ret = Returned(Int2R(405))

\* The scenario of the households [10,10,10,20,20].
C10_Witness ==
    /\ call.op = "connections_expenditure"
    /\ call.households = <<10, 10, 10, 20, 20>>
    /\ call.installation_year = 2
    /\ {HOUSEHOLDS, DISCOUNT_RATE} \subseteq DOMAIN finance_inputs
    /\ finance_inputs[DISCOUNT_RATE] = Norm(1, 10)
    /\ ret = Returned(Int2R(405))

-----------------------------------------------------------------------------
(* Properties of diesel_fuel_expenditure. *)

\* The use of day k (from 1): the sum of the 24 hours of the day.
UsageOfDay(hourly, k) == RSumRange(hourly, 24 * (k - 1) + 1, 24 * k)

\* C11: for an hourly usage that covers the days of the window,
\* diesel_fuel_expenditure is the discounted total of the daily series
\* usage_daily[k] * price[k]: the term of day t = start_year * 365 + k has
\* the coefficient usage_daily[k] * unit_fuel_cost, the power t of the price
\* base 1 - r_d with 1 + r_d the 365th root of 1 + 0.01 * fuel_cost_decrease,
\* and the power -t of the daily denominator of the discount rate.
C11_FuelPriceDecaysAtFuelRate ==
    (/\ call.op = "diesel_fuel_expenditure"
     /\ Len(call.diesel_fuel_usage_hourly) = 24 * 365 * (call.end_year - call.start_year)
     /\ DIESEL_FUEL \in DOMAIN finance_inputs
     /\ DISCOUNT_RATE \in DOMAIN finance_inputs)
        => LET fuel  == finance_inputs[DIESEL_FUEL]
               first == call.start_year * 365
               n     == 365 * (call.end_year - call.start_year)
               days  == {k \in 0..(n - 1) :
                            UsageOfDay(call.diesel_fuel_usage_hourly, k + 1) # Zero}
           IN  /\ ret.kind = "returned"
               /\ ret.value.root365 = RAdd(One, finance_inputs[DISCOUNT_RATE])
               /\ ret.value.fuel365 = RAdd(One, RMul(Percent(1), fuel.cost_decrease))
               /\ DOMAIN ret.value.coef = {-(first + k) : k \in days}
               /\ \A k \in days :
                    /\ ret.value.coef[-(first + k)] =
                          RMul(UsageOfDay(call.diesel_fuel_usage_hourly, k + 1), fuel.cost)
                    /\ ret.value.fuel_exp[-(first + k)] = first + k

\* Fuel whose price changes by 10 % a year, discounted at 10 % a year over
\* the second year, with a use that changes from day to day.
C11_Witness ==
    /\ call.op = "diesel_fuel_expenditure"
    /\ call.start_year = 1 /\ call.end_year = 2
    /\ Len(call.diesel_fuel_usage_hourly) = 24 * 365
    /\ ret.kind = "returned"
    /\ ret.value.fuel365 = Norm(9, 10)
    /\ ret.value.root365 = Norm(11, 10)
    /\ ret.value.coef[-365] # ret.value.coef[-366]
    /\ ret.value.coef[-365] = Int2R(50)
    /\ ret.value.fuel_exp[-366] = 366

-----------------------------------------------------------------------------
(* Properties of total_om and _component_om. *)

\* The entries that total_om reads for the sizes of a call.
OmKeysOf(c) ==
    {DIESEL, GENERAL_OM, PV, STORAGE, DISCOUNT_RATE}
        \cup {k \in OptionalKeys : RLess(Zero, SizeOf(c, k))}

\* The O&M cost of a day of the component k at the size of the call, by the
\* formula size * om / 365 (0 for an optional component of size 0).
DailyOmOf(c, k) ==
    IF k \in OptionalKeys /\ ~RLess(Zero, SizeOf(c, k)) THEN Zero
    ELSE RDiv(RMul(SizeOf(c, k), finance_inputs[k].om), Int2R(365))

\* C12: when finance_inputs holds the entries it reads, total_om returns the
\* sum of the O&M costs of diesel, PV and storage at their sizes, of every
\* optional component of positive size, and of the general O&M at size 1;
\* an optional component of size 0 adds nothing, with or without an entry.
\* The O&M cost of a component is the discounted total of its daily cost
\* over the days that _component_om replicates.
C12_TotalOmIsSumOfComponents ==
    (call.op = "total_om" /\ OmKeysOf(call) \subseteq DOMAIN finance_inputs)
        => LET daily ==
                   RAdd(RAdd(RAdd(RAdd(RAdd(RAdd(
                       DailyOmOf(call, CLEAN_WATER_TANK),
                       DailyOmOf(call, DIESEL)),
                       RDiv(finance_inputs[GENERAL_OM], Int2R(365))),
                       DailyOmOf(call, HOT_WATER_TANK)),
                       DailyOmOf(call, PV)),
                       DailyOmOf(call, PV_T)),
                       DailyOmOf(call, STORAGE))
               n == (call.end_year - call.start_year) * 265
           IN  /\ ret.kind = "returned"
               /\ ret.value.root365 = RAdd(One, finance_inputs[DISCOUNT_RATE])
               /\ ret.value.coef = WindowTotal([k \in 1..n |-> daily], call.start_year, n)

\* Clean-water tanks and a diesel generator are installed, hot-water tanks
\* and PV-T are not: the daily cost is (3*1 + 1*2 + 73 + 3*5 + 1*11) / 365.
C12_Witness ==
    /\ call.op = "total_om"
    /\ call.clean_water_tanks = Int2R(3) /\ call.diesel_size = One
    /\ call.hot_water_tanks = Zero /\ call.pvt_array_size = Zero
    /\ HOT_WATER_TANK \in DOMAIN finance_inputs
    /\ PV_T \notin DOMAIN finance_inputs
    /\ call.start_year = 1
    /\ ret.kind = "returned"
    /\ ret.value.coef[-365] = Norm(104, 365)

\* C20: _component_om builds a constant daily series of the value
\* size * unit_om_cost / 365 with (end_year - start_year) * 265 entries, and
\* its result is that value times the sum of the discounted fractions of the
\* first (end_year - start_year) * 265 days of the window; the other days of
\* the window have no term in the total.
C20_OmCoversFirst265DaysOfYear ==
    (call.op = "_component_om" /\ DISCOUNT_RATE \in DOMAIN finance_inputs)
        => LET value == RDiv(RMul(call.component_size, call.component_om_cost), Int2R(365))
               years == call.end_year - call.start_year
               first == call.start_year * 365
               days  == IF value = Zero THEN {} ELSE first..(first + years * 265 - 1)
           IN  /\ Len(locals.total_daily_cost) = years * 265
               /\ \A k \in 1..(years * 265) : locals.total_daily_cost[k] = value
               /\ ret.kind = "returned"
               /\ ret.value.root365 = RAdd(One, finance_inputs[DISCOUNT_RATE])
               /\ DOMAIN ret.value.coef = {-t : t \in days}
               /\ \A t \in days : ret.value.coef[-t] = value

\* Two years from year 0 at 73 a year for one unit: the days 0 .. 529 cost
\* 1/5 each and the days 530 .. 729 nothing.
C20_Witness ==
    /\ call.op = "_component_om"
    /\ call.start_year = 0 /\ call.end_year = 2
    /\ call.component_om_cost = Int2R(73) /\ call.component_size = One
    /\ ret.kind = "returned"
    /\ ret.value.coef[-529] = Norm(1, 5)
    /\ -530 \notin DOMAIN ret.value.coef
    /\ Len(locals.total_daily_cost) = 530

-----------------------------------------------------------------------------
(* Properties of _component_cost. *)

\* b ** n for whole numbers, n >= 0, with b ** 0 = 1.
RECURSIVE IntPow(_, _)
IntPow(b, n) == IF n = 0 THEN 1 ELSE b * IntPow(b, n - 1)

\* C13: for every unit cost c, size s, cost decrease p (in percent) and
\* installation year n >= 0, _component_cost returns
\* s * c * (1 - 0.01 * p) ** n, written here over a common denominator:
\* s * c * (100 - p) ** n / 100 ** n; with p = 0 the result is c * s.
C13_CostCompoundsOverYears ==
    (call.op = "_component_cost") =>
        LET c == call.component_cost
            s == call.component_size
            p == call.component_cost_decrease
            n == call.installation_year
        IN  /\ ret.kind = "returned"
            /\ ret.value = Norm(s[1] * c[1] * IntPow(100 * p[2] - p[1], n),
                                s[2] * c[2] * IntPow(100 * p[2], n))
            /\ p = Zero => ret.value = Norm(c[1] * s[1], c[2] * s[2])

\* 3 units at 500 each, 10 % cheaper every year, installed in year 2:
\* 3 * 500 * 0.9 ** 2 = 1215.
C13_Witness ==
    /\ call.op = "_component_cost"
    /\ call.component_cost = Int2R(500) /\ call.component_size = Int2R(3)
    /\ call.component_cost_decrease = Int2R(10) /\ call.installation_year = 2
    /\ ret = Returned(Int2R(1215))

-----------------------------------------------------------------------------
(* The values of the discounted fractions. *)

\* The fraction v = [exp, coef] over the denominator Root365(x) is the
\* number 1: x ** 0 is 1 for every x (in Python also for x = 0), and so is
\* every power of 1.
FractionIsOne(x, v) == v.coef = One /\ (v.exp = 0 \/ x = One)

\* For a real denominator, x > 0: Root365(x) ** u.exp < Root365(x) ** v.exp.
\* The powers of a number above 1 grow with the exponent, those of a number
\* between 0 and 1 fall.
FractionLess(x, u, v) ==
    /\ RLess(Zero, x)
    /\ u.coef = One /\ v.coef = One
    /\ \/ RLess(One, x) /\ u.exp < v.exp
       \/ RLess(x, One) /\ u.exp > v.exp

\* The fractions fall from day to day within the sequence s, and from the
\* last day of s to the first day of the sequence next.
FallsAcross(x, s, next) ==
    /\ \A k \in 1..(Len(s) - 1) : FractionLess(x, s[k + 1], s[k])
    /\ (Len(s) > 0 /\ Len(next) > 0) => FractionLess(x, next[1], s[Len(s)])

C14_Body ==
    /\ ret.kind = "returned"
    /\ call.start_year = 0 =>
          FractionIsOne(ret.value.root365, ret.value.values[1])
    /\ RLess(Zero, call.discount_rate) =>
          FallsAcross(ret.value.root365, ret.value.values,
                      _discounted_fraction(call.discount_rate, call.end_year,
                                           call.end_year + 1).value.values)

\* C14 as claimed: for every annual rate the sequence of a window that
\* starts in year 0 begins with 1, and for a rate above 0 the fractions fall
\* strictly from day to day, within the window and into the next window.
C14_DayZeroIsOneForEveryRate ==
    (call.op = "_discounted_fraction") => C14_Body

\* C14 as amended: the same for every annual rate other than -1; at -1 the
\* denominator is 0 and the call raises ZeroDivisionError.
C14_DayZeroIsOneAndFalling ==
    /\ (call.op = "_discounted_fraction" /\ call.discount_rate # Int2R(-1)) => C14_Body
    /\ (call.op = "_discounted_fraction" /\ call.discount_rate = Int2R(-1))
          => ret = Raised("ZeroDivisionError")

\* A rate above 0 and a window from year 0: day 0 is 1, and day 365 of the
\* next window is below day 364.
C14_Witness ==
    /\ call.op = "_discounted_fraction"
    /\ call.discount_rate = Norm(1, 10)
    /\ call.start_year = 0 /\ call.end_year = 1
    /\ ret.kind = "returned"
    /\ ret.value.values[1] = [exp |-> 0, coef |-> One]
    /\ ret.value.values[365].exp = -364

\* The fractions grow from day to day within the sequence s.
Grows(x, s) == \A k \in 1..(Len(s) - 1) : FractionLess(x, s[k], s[k + 1])

\* C16 as claimed: every negative annual rate is accepted: the call raises
\* nothing and returns real fractions that grow with the day index.
C16_EveryNegativeRateGrows ==
    (call.op = "_discounted_fraction" /\ RLess(call.discount_rate, Zero))
        => /\ ret.kind = "returned"
           /\ Grows(ret.value.root365, ret.value.values)

\* C16 as amended: an annual rate between -1 and 0 is accepted and gives
\* real fractions that grow with the day index; the rate -1 raises
\* ZeroDivisionError; a rate below -1 raises nothing, but the denominator is
\* the root of a negative number and the fractions are not real.
C16_NegativeRateAboveMinusOneGrows ==
    (call.op = "_discounted_fraction" /\ RLess(call.discount_rate, Zero))
        => IF RLess(Int2R(-1), call.discount_rate)
           THEN /\ ret.kind = "returned"
                /\ RLess(Zero, ret.value.root365)
                /\ Grows(ret.value.root365, ret.value.values)
           ELSE IF call.discount_rate = Int2R(-1)
           THEN ret = Raised("ZeroDivisionError")
           ELSE /\ ret.kind = "returned"
                /\ RLess(ret.value.root365, Zero)
                /\ ~Grows(ret.value.root365, ret.value.values)

\* The rate -0.1 over the second year: day 366 is above day 365.
C16_Witness ==
    /\ call.op = "_discounted_fraction"
    /\ call.discount_rate = Norm(-1, 10)
    /\ call.start_year = 1
    /\ ret.kind = "returned"
    /\ ret.value.root365 = Norm(9, 10)
    /\ ret.value.values[1].exp = -365 /\ ret.value.values[2].exp = -366

-----------------------------------------------------------------------------
(* Linearity of discounted_energy_total. *)

\* The pairs of scalars a, b and the second series that are tried.
Scalars == {<<Int2R(2), Int2R(-1)>>, <<Norm(1, 2), Int2R(3)>>, <<Zero, One>>}

\* a * x + b * y, day by day.
Combination(a, x, b, y) ==
    [k \in 1..Len(x) |-> RAdd(RMul(a, x[k]), RMul(b, y[k]))]

\* C15: for scalars a, b and two daily series x, y of the window's length,
\* the discounted total of a * x + b * y is a times the total of x plus
\* b times the total of y, for the same finance inputs and window.
C15_TotalIsLinear ==
    (/\ call.op = "discounted_energy_total"
     /\ Len(call.total_daily) = (call.end_year - call.start_year) * 365
     /\ DISCOUNT_RATE \in DOMAIN finance_inputs)
        => \A ab \in Scalars, kind \in {"ramp", "gaps"} :
              LET x  == call.total_daily
                  y  == DailySeries(kind, Len(x))
                  ty == discounted_energy_total(finance_inputs, y,
                                                call.start_year, call.end_year)
                  t  == discounted_energy_total(
                            finance_inputs, Combination(ab[1], x, ab[2], y),
                            call.start_year, call.end_year)
              IN  /\ ret.kind = "returned" /\ ty.kind = "returned" /\ t.kind = "returned"
                  /\ t.value.root365 = ret.value.root365
                  /\ t.value.coef = PAdd(PScale(ab[1], ret.value.coef),
                                         PScale(ab[2], ty.value.coef))

\* A changing series over two years, discounted at 50 % a year.
C15_Witness ==
    /\ call.op = "discounted_energy_total"
    /\ call.start_year = 0 /\ call.end_year = 2
    /\ Len(call.total_daily) = 730
    /\ call.total_daily[1] # call.total_daily[2]
    /\ ret.kind = "returned"
    /\ ret.value.root365 = Norm(3, 2)
    /\ Cardinality(DOMAIN ret.value.coef) = 730

-----------------------------------------------------------------------------
(* Missing finance inputs. *)

\* An inverter is installed within the window of the call c.
ReplacementInWindow(c) ==
    \E y \in 0..(c.max_years - 1) :
        /\ y % finance_inputs[INVERTER].lifetime = 0
        /\ c.start_year <= y /\ y < c.end_year

\* The entries of the finance inputs that the operation of the call c reads
\* for its arguments.
KeysReadBy(c) ==
    CASE c.op = "discounted_energy_total"  -> {DISCOUNT_RATE}
      [] c.op = "_component_om"            -> {DISCOUNT_RATE}
      [] c.op = "get_total_equipment_cost" ->
            {BOS, DIESEL, PV, STORAGE, MISC}
                \cup {k \in OptionalKeys : RLess(Zero, SizeOf(c, k))}
      [] c.op = "total_om"                 -> OmKeysOf(c)
      [] c.op = "_inverter_expenditure"    ->
            {INVERTER} \cup (IF INVERTER \in DOMAIN finance_inputs /\ ReplacementInWindow(c)
                             THEN {DISCOUNT_RATE} ELSE {})
      [] c.op = "connections_expenditure"  -> {HOUSEHOLDS, DISCOUNT_RATE}
      [] c.op = "diesel_fuel_expenditure"  -> {DIESEL_FUEL, DISCOUNT_RATE}
      [] c.op = "expenditure"              -> {c.component, DISCOUNT_RATE}
      [] OTHER                             -> {}

\* C17: whenever an entry of the finance inputs that the operation reads for
\* its arguments is absent, the call ends in an error raised to the caller
\* and returns no number.
C17_MissingEntryRaises ==
    (call.op # "none" /\ ~(KeysReadBy(call) \subseteq DOMAIN finance_inputs))
        => ret.kind \in {"KeyError", "InputFileError", "ValueError"}

\* The general O&M entry is the only one missing: total_om raises KeyError
\* though the O&M of the clean-water tanks and of the diesel generator are
\* computed before the entry is read.
C17_Witness ==
    /\ call.op = "total_om"
    /\ DOMAIN finance_inputs = AllKeys \ {GENERAL_OM}
    /\ RLess(Zero, call.clean_water_tanks)
    /\ ret = KeyError(GENERAL_OM)

-----------------------------------------------------------------------------
(* Frame conditions. *)

-----------------------------------------------------------------------------
(* The daily series that the operations pass to discounted_energy_total. *)

\* C19: the daily series that _component_om, diesel_fuel_expenditure and
\* expenditure (for an hourly usage that covers the window) pass to
\* discounted_energy_total has (end_year - start_year) * 365 entries, as
\* many as the discounted fractions of the window.
C19_PassedSeriesCoverWindow ==
    (/\ call.op \in {"_component_om", "diesel_fuel_expenditure", "expenditure"}
     /\ "total_daily_cost" \in DOMAIN locals
     /\ call.op = "expenditure" =>
           Len(call.hourly_usage) = 24 * 365 * (call.end_year - call.start_year))
        => Len(locals.total_daily_cost) = (call.end_year - call.start_year) * 365

-----------------------------------------------------------------------------
(* Properties of discounted_equipment_cost. *)

\* C21: discounted_equipment_cost returns get_total_equipment_cost of the
\* same sizes and the same installation year (for some number of hot-water
\* tanks, which it is not given), times (1 - discount_rate) **
\* installation_year; it returns whenever the finance inputs hold the
\* discount rate and get_total_equipment_cost returns for these sizes and no
\* hot-water tanks.
C21_DiscountedCostOfSameArguments ==
    (call.op = "discounted_equipment_cost" /\ DISCOUNT_RATE \in DOMAIN finance_inputs)
        => LET Undiscounted(hot_water_tanks) ==
                   get_total_equipment_cost(
                       call.clean_water_tanks, call.diesel_size, finance_inputs,
                       hot_water_tanks, call.pv_array_size, call.pvt_array_size,
                       call.storage_size, call.installation_year)
               fraction == RPow(RSub(One, finance_inputs[DISCOUNT_RATE]),
                                call.installation_year)
           IN  /\ Undiscounted(Zero).kind = "returned" => ret.kind = "returned"
               /\ ret.kind = "returned" =>
                     \E hot_water_tanks \in TankCounts \cup Sizes :
                        /\ Undiscounted(hot_water_tanks).kind = "returned"
                        /\ ret.value = RMul(Undiscounted(hot_water_tanks).value, fraction)

-----------------------------------------------------------------------------
(* Properties of _inverter_expenditure over the windows of a split. *)

\* The replacement events of the call in progress with a <= year < b.
EventsBetween(a, b) ==
    {y \in 0..(call.max_years - 1) :
        y % finance_inputs[INVERTER].lifetime = 0 /\ a <= y /\ y < b}

\* The years at which the window of the call in progress may be cut.
CutPoints ==
    {p \in (0..MaxLocationYears) \cup {10, 20} :
        call.start_year < p /\ p < call.end_year}

\* The consecutive windows of the split of the window of the call in
\* progress at the years of cuts.
WindowsOfSplit(cuts) ==
    LET bounds == cuts \cup {call.start_year, call.end_year}
    IN  {w \in bounds \X bounds :
            w[1] < w[2] /\ ~\E c \in bounds : w[1] < c /\ c < w[2]}

\* What _inverter_expenditure returns for the window [a, b) of the system of
\* the call in progress.
ExpenditureOfWindow(a, b) ==
    _inverter_expenditure(finance_inputs, call.max_years, call.maximum, a, b)

\* C22: for every split of the window of a call into consecutive windows,
\* _inverter_expenditure returns for each window the (rounded) sum of the
\* discounted expenditure of the replacement events whose installation year
\* is in that window, every event of the whole window is in exactly one
\* window of the split, and the expenditure and the size of an event are
\* those of its row of inverter_info whatever the window is.
C22_EveryEventInOneWindowOfASplit ==
    (/\ call.op = "_inverter_expenditure"
     /\ {INVERTER, DISCOUNT_RATE} \subseteq DOMAIN finance_inputs)
        => /\ ret.kind = "returned"
           /\ \A i \in 1..Len(locals.inverter_info) :
                 locals.inverter_info[i] =
                     inverter_row(finance_inputs, call.maximum,
                                  (i - 1) * finance_inputs[INVERTER].lifetime)
           /\ \A cuts \in SUBSET CutPoints :
                 /\ \A w \in WindowsOfSplit(cuts) :
                       ExpenditureOfWindow(w[1], w[2]) =
                           Returned(RRound2(SumOver(
                               [y \in EventsBetween(w[1], w[2]) |-> EventExpenditure(y)],
                               EventsBetween(w[1], w[2]))))
                 /\ \A y \in EventsBetween(call.start_year, call.end_year) :
                       Cardinality({w \in WindowsOfSplit(cuts) :
                                       y \in EventsBetween(w[1], w[2])}) = 1
                 /\ UNION {EventsBetween(w[1], w[2]) : w \in WindowsOfSplit(cuts)}
                       = EventsBetween(call.start_year, call.end_year)

\* A system of five years with replacements in the years 0, 2 and 4, for the
\* window of all its years: the split at 2 and 4 cuts at the years of two
\* events, and each of its windows has an expenditure.
C22_Witness ==
    /\ call.op = "_inverter_expenditure"
    /\ {INVERTER, DISCOUNT_RATE} \subseteq DOMAIN finance_inputs
    /\ finance_inputs[INVERTER].lifetime = 2
    /\ call.max_years = 5 /\ call.start_year = 0 /\ call.end_year = 5
    /\ ret.kind = "returned"
    /\ EventsBetween(0, 5) = {0, 2, 4}
    /\ WindowsOfSplit({2, 4}) = {<<0, 2>>, <<2, 4>>, <<4, 5>>}
    /\ \A w \in WindowsOfSplit({2, 4}) :
          /\ ExpenditureOfWindow(w[1], w[2]).kind = "returned"
          /\ RLess(Zero, ExpenditureOfWindow(w[1], w[2]).value)
          /\ RLess(ExpenditureOfWindow(w[1], w[2]).value, ret.value)

-----------------------------------------------------------------------------
(* Properties of BaseRenewablesNinjaThread.run. *)

Children == {cls \in Classes : HasProfileName(cls)}

\* The thread of the class has begun the loop of run.
InLoop(cls) == threads[cls].pc \in {"sleeping", "finished", "raised"}

\* The places of the trace of the thread with an event of a kind, and the
\* years of these events.
EventsOf(cls, event) ==
    {i \in 1..Len(threads[cls].trace) : threads[cls].trace[i].event = event}

YearsOf(cls, event) == {threads[cls].trace[i].n : i \in EventsOf(cls, event)}

\* The years whose round of the loop is over.
HandledYears(cls) == FirstYear..(threads[cls].year - 1)

\* The file of a year of the profile of the class exists and holds the data
\* that the API served to the run of this number.
FileIsOfRun(cls, year, run) ==
    /\ isfile(files, YearFile(profile_name(cls), year))
    /\ \A i \in 1..Len(files[YearFile(profile_name(cls), year)].lines) :
          files[YearFile(profile_name(cls), year)].lines[i].fetch = run

\* The file of a year exists and was not written by the thread of the class.
FileIsOlder(cls, year) ==
    /\ isfile(files, YearFile(profile_name(cls), year))
    /\ \E run \in 1..(threads[cls].runs - 1) : FileIsOfRun(cls, year, run)

\* C23: with regenerate false a year whose file exists is skipped: no
\* request is made for it and its file stays as it was; with regenerate true
\* every year that is handled is requested and its file is written anew.  So
\* a thread that finds the files of all its years and does not regenerate
\* makes no request.
C23_ExistingYearsAreSkipped ==
    \A cls \in Children :
        InLoop(cls) =>
            LET thread == threads[cls]
            IN  /\ ~thread.regenerate =>
                      \A y \in (FirstYear..thread.end_year) \ thread.missing :
                          /\ y \notin YearsOf(cls, "request")
                          /\ y \notin YearsOf(cls, "write")
                          /\ FileIsOlder(cls, y)
                          /\ y \in HandledYears(cls) => y \in YearsOf(cls, "skip")
                /\ thread.regenerate =>
                      /\ YearsOf(cls, "skip") = {}
                      /\ \A y \in HandledYears(cls) :
                            /\ y \in YearsOf(cls, "request")
                            /\ y \in YearsOf(cls, "write")
                            /\ FileIsOfRun(cls, y, thread.runs)
                /\ (thread.pc = "finished" /\ ~thread.regenerate /\ thread.missing = {})
                      => YearsOf(cls, "request") = {}

\* The second thread of a class, which does not regenerate, has finished
\* after a thread that wrote the files of both its years: it skipped both
\* and made no request, and the files are those of the first thread.
C23_Witness ==
    LET thread == threads["SolarDataThread"]
    IN  /\ thread.pc = "finished"
        /\ thread.runs = 2
        /\ ~thread.regenerate
        /\ thread.end_year = FirstYear + 1
        /\ thread.missing = {}
        /\ YearsOf("SolarDataThread", "skip") = {FirstYear, FirstYear + 1}
        /\ YearsOf("SolarDataThread", "request") = {}
        /\ FileIsOfRun("SolarDataThread", FirstYear, 1)
        /\ FileIsOfRun("SolarDataThread", FirstYear + 1, 1)

\* C24: the trace of a thread begins with the random sleep, of at most
\* 12 * sleep_multiplier seconds; the years are handled one after the other
\* from start_year on, up to end_year when run returns; a sleep of
\* 12 * sleep_multiplier seconds lies between two requests that follow one
\* another; and there is no sleep after end_year is handled.
C24_YearsInOrderWithSleeps ==
    \A cls \in Children :
        InLoop(cls) =>
            LET thread == threads[cls]
                trace  == thread.trace
                delay  == RENEWABLES_NINJA_SLEEP_TIME * thread.sleep_multiplier
                rounds == EventsOf(cls, "skip") \cup EventsOf(cls, "request")
            IN  /\ trace[1] = Event("random sleep", delay)
                /\ EventsOf(cls, "random sleep") = {1}
                /\ Len(trace) = 1 => (0 <= thread.sleep_left /\ thread.sleep_left <= delay)
                /\ \A i \in rounds :
                      trace[i].n = FirstYear + Cardinality({j \in rounds : j < i})
                /\ thread.pc = "finished" =>
                      {trace[i].n : i \in rounds} = FirstYear..thread.end_year
                /\ \A i, j \in EventsOf(cls, "request") :
                      (i < j /\ ~\E k \in EventsOf(cls, "request") : i < k /\ k < j)
                          => \E k \in EventsOf(cls, "sleep") :
                                i < k /\ k < j /\ trace[k].n = delay
                /\ \A i \in rounds :
                      trace[i].n = thread.end_year
                          => ~\E k \in EventsOf(cls, "sleep") : i < k
                /\ \A k \in EventsOf(cls, "sleep") : trace[k - 1].event = "write"

\* A thread with the sleep multiplier 2 that requested the data of two
\* years has finished: it slept for 24 seconds between the requests and did
\* not sleep after the second one.
C24_Witness ==
    LET thread == threads["SolarDataThread"]
    IN  /\ thread.pc = "finished"
        /\ thread.sleep_multiplier = 2
        /\ thread.trace = <<Event("random sleep", 24),
                            Event("request", FirstYear), Event("write", FirstYear),
                            Event("sleep", 24),
                            Event("request", FirstYear + 1), Event("write", FirstYear + 1)>>

\* C25 as claimed: no request of a thread is closer than the delay of
\* 12 * sleep_multiplier seconds to a request of another thread before it.
C25_RequestsOfThreadsAreApart ==
    \A cls \in Children :
        threads[cls].gap >= 0 =>
            threads[cls].gap >= RENEWABLES_NINJA_SLEEP_TIME * threads[cls].sleep_multiplier

\* C25 as amended: two requests of one thread are at least
\* 12 * sleep_multiplier seconds apart, and that is all: a request of a
\* thread may come at any time after a request of another thread.
C25_RequestsOfOneThreadAreApart ==
    \A cls \in Children :
        /\ threads[cls].own_gap >= 0 =>
              threads[cls].own_gap
                  >= RENEWABLES_NINJA_SLEEP_TIME * threads[cls].sleep_multiplier
        /\ Cardinality(EventsOf(cls, "request")) >= 2 => threads[cls].own_gap >= 0

\* Two threads run side by side and each has made its two requests, 24
\* seconds apart; a request of the one came at the time of a request of the
\* other.
C25_Witness ==
    /\ \A cls \in {"SolarDataThread", "WindDataThread"} :
          /\ threads[cls].pc = "finished"
          /\ threads[cls].runs = 1
          /\ Cardinality(EventsOf(cls, "request")) = 2
          /\ threads[cls].own_gap = 24
    /\ threads["WindDataThread"].gap = 0

\* C26: an error in the round of a year ends the thread: run does not try
\* the year again, writes no file for it and handles no later year, and the
\* files it wrote for the years before are in place.  A thread that does not
\* regenerate requests the years whose files were missing when it started,
\* and no other year.
C26_ErrorEndsTheRun ==
    \A cls \in Children :
        LET thread == threads[cls]
        IN  /\ thread.error # NoError =>
                  /\ thread.pc = "raised"
                  /\ thread.year \notin YearsOf(cls, "write")
                  /\ Cardinality({i \in EventsOf(cls, "request") :
                                     thread.trace[i].n = thread.year}) <= 1
                  /\ ~FileIsOfRun(cls, thread.year, thread.runs)
                  /\ \A i \in 1..Len(thread.trace) :
                        thread.trace[i].event \in {"skip", "request", "write"}
                            => thread.trace[i].n <= thread.year
                  /\ \A y \in YearsOf(cls, "write") : FileIsOfRun(cls, y, thread.runs)
            /\ (InLoop(cls) /\ ~thread.regenerate) =>
                  /\ YearsOf(cls, "request") \subseteq thread.missing
                  /\ thread.pc = "finished" => YearsOf(cls, "request") = thread.missing

\* A thread wrote the file of its first year, and the reply to its request
\* for the second year was no JSON: run raised RenewablesNinjaError, the
\* file of the first year is in place and there is none of the second year.
C26_Witness ==
    LET thread == threads["SolarDataThread"]
    IN  /\ thread.pc = "raised"
        /\ thread.error = Raised("RenewablesNinjaError")
        /\ thread.year = FirstYear + 1
        /\ YearsOf("SolarDataThread", "write") = {FirstYear}
        /\ YearsOf("SolarDataThread", "request") = {FirstYear, FirstYear + 1}
        /\ FileIsOfRun("SolarDataThread", FirstYear, thread.runs)
        /\ ~isfile(files, YearFile("solar", FirstYear + 1))

\* C28: a thread of the base class ends run with InternalError, before it
\* sleeps, requests or writes anything.
C28_BaseThreadRaisesInternalError ==
    \A cls \in Classes \ Children :
        threads[cls].pc \notin {"none", "started"} =>
            /\ threads[cls].pc = "raised"
            /\ threads[cls].error = Raised("InternalError")
            /\ threads[cls].trace = <<>>

-----------------------------------------------------------------------------
(* Properties of the profiles. *)

\* C27: for a reply that is no JSON, or JSON without the data,
\* _get_profile_from_rn raises RenewablesNinjaError.
C27_BadReplyRaisesRenewablesNinjaError ==
    (call.op = "_get_profile_from_rn" /\ call.kind \in {"html", "detail", "array"})
        => ret = Raised("RenewablesNinjaError")

\* The lines of the first k of the yearly files that the profile of the
\* call is made of: the files of the years from start_year on, taken in
\* turn, and from start_year again after block of them.
RECURSIVE LinesOfYears(_, _, _, _)
LinesOfYears(dir, c, block, k) ==
    IF k = 0 THEN <<>>
    ELSE ConcatRows(LinesOfYears(dir, c, block, k - 1),
                    dir[YearFile(c.profile_name, c.start_year + ((k - 1) % block))].lines)

\* The rows of a year.
RowsOfYear == DaysPerYear * HoursPerDay

\* C29: a call of total_profile_output that finds the total file and does
\* not regenerate returns the content of the file and writes nothing,
\* whether the yearly files exist or not.  Any other call returns the files
\* of the first min(10, num_years) years in the order of the years, taken
\* ceil(num_years / 10) times, and writes that to the total file; the result
\* has the rows of at least num_years years, and of num_years years only
\* when num_years <= 10 or num_years is a multiple of 10.
C29_TotalIsBlockOfYearsRepeated ==
    [][(call.op = "none" /\ call'.op = "total_profile_output") =>
          LET c      == call'
              total  == TotalFile(c.profile_name, c.num_years)
              block  == IF c.num_years < 10 THEN c.num_years ELSE 10
              times  == (c.num_years + 9) \div 10
              years  == c.start_year..(c.start_year + block - 1)
          IN  IF isfile(files, total) /\ ~c.regenerate
              THEN /\ ret' = Returned(read_csv(files[total]))
                   /\ files' = files
              ELSE IF \A y \in years : isfile(files, YearFile(c.profile_name, y))
              THEN /\ ret'.kind = "returned"
                   /\ ret'.value.rows = LinesOfYears(files, c, block, block * times)
                   /\ NumRows(ret'.value.rows) = block * times * RowsOfYear
                   /\ NumRows(ret'.value.rows) >= c.num_years * RowsOfYear
                   /\ NumRows(ret'.value.rows) = c.num_years * RowsOfYear
                         <=> (c.num_years <= 10 \/ c.num_years % 10 = 0)
                   /\ files' = WriteFile(files, total, to_csv(ret'.value))
              ELSE /\ ret'.kind = "FileNotFoundError"
                   /\ files' = files]_vars

\* The profile of 15 years was regenerated: it has the rows of 20 years,
\* the ten years from start_year on and the same ten years again, and the
\* total file holds it.
C29_Witness ==
    /\ call.op = "total_profile_output"
    /\ call.regenerate
    /\ call.num_years = 15
    /\ ret.kind = "returned"
    /\ NumRows(ret.value.rows) = 20 * RowsOfYear
    /\ ret.value.rows = LinesOfYears(files, call, 10, 10) \o LinesOfYears(files, call, 10, 10)
    /\ files[TotalFile("solar", 15)] = to_csv(ret.value)

\* The rows of a table, one by one.
RECURSIVE Rows(_)
Rows(segments) ==
    IF segments = <<>> THEN <<>>
    ELSE [i \in 1..SegmentLen(Head(segments)) |->
              [year |-> Head(segments).year, fetch |-> Head(segments).fetch,
               hour |-> Head(segments).from + i - 1]]
         \o Rows(Tail(segments))

\* The whole number nearest to a time difference, the even one of two that
\* are as near.
NearestHour(t) ==
    CHOOSE k \in -24..24 :
        \/ 2 * Abs(t[1] - k * t[2]) < t[2]
        \/ 2 * Abs(t[1] - k * t[2]) = t[2] /\ k % 2 = 0

\* C30: _get_profile_local_time turns the profile round by the rounded time
\* difference d: the result has the rows of the profile, each as often as
\* the profile has it; for d > 0 its first rows are the last d rows of the
\* profile and for d < 0 its last rows are the first |d| rows of the
\* profile, the other rows keeping their order; and the call with -d turns
\* the result back into the profile.
C30_LocalTimeIsRotation ==
    call.op = "_get_profile_local_time" =>
        LET d     == NearestHour(call.time_difference)
            given == Rows(call.data_utc.rows)
            local == Rows(ret.value.rows)
            n     == Len(given)
        IN  /\ ret.kind = "returned"
            /\ ret.value.columns = call.data_utc.columns
            /\ Len(local) = n
            /\ \A i \in 1..n :
                  Cardinality({j \in 1..n : local[j] = given[i]})
                      = Cardinality({j \in 1..n : given[j] = given[i]})
            /\ d > 0 => local = SubSeq(given, n - d + 1, n) \o SubSeq(given, 1, n - d)
            /\ d < 0 => local = SubSeq(given, 1 - d, n) \o SubSeq(given, 1, -d)
            /\ d = 0 => local = given
            /\ _get_profile_local_time(ret.value, Int2R(-d)) = call.data_utc

\* A profile of eight hours at a place five and a half hours east of
\* Greenwich: the last six rows come first.
C30_Witness ==
    /\ call.op = "_get_profile_local_time"
    /\ call.time_difference = Norm(11, 2)
    /\ call.data_utc.rows = <<Segment(FirstYear, 1, 0, 7)>>
    /\ ret = Returned(Frame(<<ELECTRICITY>>,
                            <<Segment(FirstYear, 1, 2, 7), Segment(FirstYear, 1, 0, 1)>>))

====
